---- MODULE Spec2Model ----
(***************************************************************************)
(* Model of the hierarchical knowledge store and retrieval engine of       *)
(* RAGAgent: the result cache (services/cache_service.py), the partitioned *)
(* vector store manager and its router (services/medical_vector_store.py), *)
(* the index service (services/enhanced_index_service.py) and the          *)
(* retrieval pipeline (services/enhanced_rag_service.py).                  *)
(*                                                                         *)
(* Quantities the code keeps as floats are kept here as integers:          *)
(* distances, thresholds, quality scores and weights are in hundredths     *)
(* (0.3 is 30); time is in whole seconds.                                  *)
(***************************************************************************)
EXTENDS Integers, Sequences, FiniteSets, TLC

VARIABLES
    now,             \* time.time(), in seconds
    max_size,        \* CacheService.max_size
    cache,           \* CacheService._cache_impl._cache, in dict (insertion) order
    obs,             \* what the last cache operation was and what it returned
    lastSet,         \* history: for each cache key, the last set made under it
    metadata_cache,  \* MedicalVectorStoreManager.metadata_cache, in dict order
    vector_stores,   \* MedicalVectorStoreManager.vector_stores: the resident indexes
    disk,            \* the directories under base_path: index files and metadata.json
    sobs,            \* what the last store operation was and what it returned
    addSum,          \* history: per store key, the chunks added by successful adds
    robs,            \* what the last medical_retrieve was called with and returned
    stale,           \* history: the result keys cached when a partition was deleted
    preAdd,          \* history: the result keys cached when a partition was added to
    callers,         \* the threads calling the manager: where each is in its call
    calls,           \* the number of calls begun
    cobs,            \* what the last call of a thread to return observed
    impl,            \* CacheService._cache_impl: the in-memory cache or the Redis adapter
    redis,           \* the keys the Redis server holds
    tasks,           \* the coroutines the adapter left on the running event loop
    bobs             \* what the last call through the cache interface did

cacheVars == <<now, max_size, cache, obs, lastSet>>

storeVars == <<metadata_cache, vector_stores, disk, sobs, addSum>>

pipeVars == <<robs, stale, preAdd>>

callVars == <<callers, calls, cobs>>

backVars == <<impl, redis, tasks, bobs>>

vars == <<now, max_size, cache, obs, lastSet,
          metadata_cache, vector_stores, disk, sobs, addSum, robs, stale, preAdd,
          callers, calls, cobs, impl, redis, tasks, bobs>>

(***************************************************************************)
(* Bounds of the model.                                                    *)
(***************************************************************************)
\* the max_size the cache of SpecCache is constructed with
CacheMaxSize == 2
\* the number of clock advances in a behaviour
MaxTicks == 2
\* the number of hits counted on one entry
MaxAccess == 1
\* the max_size (and fill) of the cache of SpecEvict
EvictFill == 20
\* the number of reads made before the evicting set in SpecEvict
MaxReads == 2
\* the number of chunks in the indexes of all partitions together
MaxDocs == 3
\* the number of calls the threads of SpecConcurrent begin
MaxCalls == 3

(***************************************************************************)
(* The cache: services/cache_service.py                                    *)
(***************************************************************************)
None == "None"

default_ttl == 3600

\* CacheService.__init__(max_size = 1000)
default_max_size == 1000

SweepEvery == 100

EvictDivisor == 10

\* CacheService.ttl_config.get(cache_type, default_ttl)
ttl_config(cache_type) ==
    CASE cache_type = "query_result" -> 1800
      [] cache_type = "entity_extraction" -> 3600
      [] cache_type = "intent_recognition" -> 1800
      [] cache_type = "kg_expansion" -> 7200
      [] cache_type = "medical_association" -> 3600
      [] OTHER -> default_ttl

\* _generate_key: "<prefix>:<md5 of the serialised key data>". The digest is
\* taken to be injective on the key data of the model, so the key is the pair.
generate_key(prefix, data) == <<prefix, data>>

\* the characters of a namespace name, kept apart as far as one name of the
\* program begins another ('medical_association', 'medical_associations')
Chars(name) ==
    IF name = "medical_associations" THEN <<"medical_association", "s">>
    ELSE <<name>>

\* the key as the string it is: f"{prefix}:{digest}"
KeyString(key) == Chars(key[1]) \o <<":", key[2]>>

\* s.startswith(p)
StartsWith(s, p) == Len(p) <= Len(s) /\ \A i \in 1..Len(p) : s[i] = p[i]

\* the prefix test without the colon: key.startswith(cache_type)
KeyHasPrefix_without_colon(key, cache_type) ==
    StartsWith(KeyString(key), Chars(cache_type))

\* key.startswith(f"{cache_type}:")
KeyHasPrefix(key, cache_type) ==
    StartsWith(KeyString(key), Chars(cache_type) \o <<":">>)

\* CacheEntry(data, timestamp, ttl, access_count = 0), stored under key
CacheEntry(key, data, timestamp, ttl) ==
    [key |-> key, data |-> data, timestamp |-> timestamp, ttl |-> ttl,
     access_count |-> 0]

\* is_expired with the comparison off by one: expired at an age of exactly ttl
is_expired_at_ttl(entry, t) == t - entry.timestamp >= entry.ttl

\* CacheEntry.is_expired at time t
is_expired(entry, t) == t - entry.timestamp > entry.ttl

\* CacheEntry.access
access(entry) == [entry EXCEPT !.access_count = @ + 1]

Keys(cache_dict) == {cache_dict[i].key : i \in 1..Len(cache_dict)}

IndexOf(cache_dict, key) ==
    CHOOSE i \in 1..Len(cache_dict) : cache_dict[i].key = key

\* del cache_dict[key] for every key of ks
DelKeys(cache_dict, ks) ==
    SelectSeq(cache_dict, LAMBDA e : e.key \notin ks)

\* _cleanup_expired at time t
cleanup_expired(cache_dict, t) ==
    SelectSeq(cache_dict, LAMBDA e : ~is_expired(e, t))

\* the sort key without the access count: oldest first, however often read
SortKeyLeq_by_timestamp(a, b) == a.timestamp <= b.timestamp

\* the sort key of _evict_lru: (access_count, timestamp), compared as tuples
SortKeyLeq(a, b) ==
    \/ a.access_count < b.access_count
    \/ a.access_count = b.access_count /\ a.timestamp <= b.timestamp

\* one step of a stable sort: e goes after every element whose key is <= its own
RECURSIVE InsertSorted(_, _)
InsertSorted(e, s) ==
    IF s = <<>> THEN <<e>>
    ELSE IF SortKeyLeq(Head(s), e) THEN <<Head(s)>> \o InsertSorted(e, Tail(s))
    ELSE <<e>> \o s

\* sorted(cache_dict.items(), key = (access_count, timestamp)): stable
RECURSIVE SortedItems(_)
SortedItems(s) ==
    IF s = <<>> THEN <<>>
    ELSE InsertSorted(s[Len(s)], SortedItems(SubSeq(s, 1, Len(s) - 1)))

Max(a, b) == IF a >= b THEN a ELSE b

Min(a, b) == IF a <= b THEN a ELSE b

\* evict_count = max(1, len(sorted_items) // 10)
evict_count(n) == Max(1, n \div EvictDivisor)

\* an _evict_lru that waits until the cache is over capacity: len > max_size
EvictedKeys_when_over(cache_dict, size) ==
    IF Len(cache_dict) > size
    THEN LET sorted_items == SortedItems(cache_dict)
         IN  {sorted_items[i].key :
                 i \in 1..Min(evict_count(Len(sorted_items)), Len(sorted_items))}
    ELSE {}

\* the keys _evict_lru deletes
EvictedKeys(cache_dict, size) ==
    IF Len(cache_dict) >= size
    THEN LET sorted_items == SortedItems(cache_dict)
         IN  {sorted_items[i].key :
                 i \in 1..Min(evict_count(Len(sorted_items)), Len(sorted_items))}
    ELSE {}

\* _evict_lru
evict_lru(cache_dict, size) == DelKeys(cache_dict, EvictedKeys(cache_dict, size))

\* the periodic sweep at the head of _memory_set
SweptForSet(cache_dict, t) ==
    IF Len(cache_dict) % SweepEvery = 0 THEN cleanup_expired(cache_dict, t)
    ELSE cache_dict

\* ttl = ttl or ttl_config.get(cache_type, default_ttl): None and 0 are both
\* falsy, and an omitted ttl is written 0 here
EffectiveTtl(cache_type, ttl) ==
    IF ttl = 0 THEN ttl_config(cache_type) ELSE ttl

\* cache_dict[key] = entry: an existing key keeps its place in the dict
Store(cache_dict, entry) ==
    IF entry.key \in Keys(cache_dict)
    THEN [cache_dict EXCEPT ![IndexOf(cache_dict, entry.key)] = entry]
    ELSE Append(cache_dict, entry)

\* _memory_set: the cache it leaves
memory_set(cache_dict, size, cache_type, key_data, value, ttl, t) ==
    Store(evict_lru(SweptForSet(cache_dict, t), size),
          CacheEntry(generate_key(cache_type, key_data), value, t,
                     EffectiveTtl(cache_type, ttl)))

\* _memory_get: the value it returns
memory_get_value(cache_dict, cache_type, key_data, t) ==
    LET key == generate_key(cache_type, key_data)
    IN  IF key \in Keys(cache_dict)
           /\ ~is_expired(cache_dict[IndexOf(cache_dict, key)], t)
        THEN cache_dict[IndexOf(cache_dict, key)].data
        ELSE None

\* _memory_get: the cache it leaves (a hit is counted, an expired entry deleted)
memory_get_cache(cache_dict, cache_type, key_data, t) ==
    LET key == generate_key(cache_type, key_data)
    IN  IF key \in Keys(cache_dict)
        THEN IF ~is_expired(cache_dict[IndexOf(cache_dict, key)], t)
             THEN [cache_dict EXCEPT ![IndexOf(cache_dict, key)] = access(@)]
             ELSE DelKeys(cache_dict, {key})
        ELSE cache_dict

\* _memory_invalidate
memory_invalidate(cache_dict, cache_type, key_data) ==
    IF key_data = None
    THEN SelectSeq(cache_dict, LAMBDA e : ~KeyHasPrefix(e.key, cache_type))
    ELSE DelKeys(cache_dict, {generate_key(cache_type, key_data)})

(***************************************************************************)
(* The partitioned vector store: services/medical_vector_store.py          *)
(***************************************************************************)
\* the partitions documents are added to: (department, document_type,
\* disease_category), the category being None where there is none
PartitionSpecs == {<<"A", "X", "Y">>, <<"A", "X", "Z">>, <<"B", "X", None>>}

\* _get_store_key: "_".join of the parts, kept as the sequence of the parts
\* (no value of the three enumerations holds an underscore)
get_store_key(department, document_type, disease_category) ==
    IF disease_category = None THEN <<department, document_type>>
    ELSE <<department, document_type, disease_category>>

StoreKeys == {get_store_key(p[1], p[2], p[3]) : p \in PartitionSpecs}

\* the chunks of the model and their distance to a query, in hundredths
Chunks == {"c1", "c2", "c3"}

\* a query is the question followed by the terms the pipeline appended to it
Queries == {<<"q">>}

\* the terms a chunk's text holds
Contains(chunk, term) == <<chunk, term>> \in {<<"c2", "s1">>, <<"c3", "a1">>}

\* the distance the index gives between a query and a chunk: that of the
\* question, less a tenth where the query carries a term of the chunk
Distance(query, chunk) ==
    (CASE chunk = "c1" -> 20
       [] chunk = "c2" -> 40
       [] OTHER -> 70)
    - (IF \E i \in 2..Len(query) : Contains(chunk, query[i]) THEN 10 ELSE 0)

\* VectorStoreMetadata(department, document_type, disease_category,
\* document_count), stored under store_key
VectorStoreMetadata(store_key, department, document_type, disease_category, n) ==
    [key |-> store_key, department |-> department, document_type |-> document_type,
     disease_category |-> disease_category, document_count |-> n]

NoDirectory ==
    [dir |-> FALSE, has_index |-> FALSE, index |-> <<>>, has_meta |-> FALSE,
     meta |-> VectorStoreMetadata(<<>>, None, None, None, 0)]

MetaKeys(mc) == {mc[i].key : i \in 1..Len(mc)}

MetaIndex(mc, store_key) == CHOOSE i \in 1..Len(mc) : mc[i].key = store_key

MetaOf(mc, store_key) == mc[MetaIndex(mc, store_key)]

\* d[key] = value on a dict kept as a function
Put(d, key, value) ==
    [k \in DOMAIN d \cup {key} |-> IF k = key THEN value ELSE d[k]]

\* del d[key]
Drop(d, key) == [k \in DOMAIN d \ {key} |-> d[k]]

\* _load_vector_store: the resident index, or the index loaded from the
\* directory of the key; found is FALSE where the code returns None (no
\* directory, or FAISS.load_local raised on a directory without an index)
load_vector_store(stores, dk, store_key) ==
    IF store_key \in DOMAIN stores
    THEN [found |-> TRUE, index |-> stores[store_key], stores |-> stores]
    ELSE IF dk[store_key].dir /\ dk[store_key].has_index
    THEN [found |-> TRUE, index |-> dk[store_key].index,
          stores |-> Put(stores, store_key, dk[store_key].index)]
    ELSE [found |-> FALSE, index |-> <<>>, stores |-> stores]

\* a metadata update that replaces the count by the size of the last batch
UpdatedMetadata_replace(mc, store_key, department, document_type, disease_category, n) ==
    IF store_key \in MetaKeys(mc)
    THEN [mc EXCEPT ![MetaIndex(mc, store_key)].document_count = n]
    ELSE Append(mc, VectorStoreMetadata(store_key, department, document_type,
                                        disease_category, n))

\* the metadata update of add_documents
UpdatedMetadata(mc, store_key, department, document_type, disease_category, n) ==
    IF store_key \in MetaKeys(mc)
    THEN [mc EXCEPT ![MetaIndex(mc, store_key)].document_count = @ + n]
    ELSE Append(mc, VectorStoreMetadata(store_key, department, document_type,
                                        disease_category, n))

\* the points at which add_documents can raise: the embedding provider, the
\* write of the index (save_local), the write of metadata.json
AddFailures == {"none", "embed", "save", "meta"}

\* an add_documents that writes metadata.json before it saves the index
add_documents_metadata_first(documents, department, document_type, disease_category, fail) ==
    LET store_key == get_store_key(department, document_type, disease_category)
        loaded == load_vector_store(vector_stores, disk, store_key)
        embedded == fail # "embed"
        index == IF loaded.found THEN loaded.index \o documents ELSE documents
        meta == UpdatedMetadata(metadata_cache, store_key, department,
                                document_type, disease_category, Len(documents))
        written == embedded /\ fail # "meta"
        saved == written /\ fail # "save"
    IN  IF documents = <<>>
        THEN [ok |-> FALSE, stores |-> vector_stores, meta |-> metadata_cache,
              dk |-> disk]
        ELSE [ok |-> saved,
              stores |-> IF embedded THEN Put(loaded.stores, store_key, index)
                         ELSE loaded.stores,
              meta |-> IF embedded THEN meta ELSE metadata_cache,
              dk |-> [disk EXCEPT ![store_key] =
                        [dir |-> @.dir \/ embedded,
                         has_index |-> @.has_index \/ saved,
                         index |-> IF saved THEN index ELSE @.index,
                         has_meta |-> @.has_meta \/ written,
                         meta |-> IF written THEN MetaOf(meta, store_key)
                                  ELSE @.meta]]]

\* add_documents: what it returns and the state it leaves
add_documents(documents, department, document_type, disease_category, fail) ==
    LET store_key == get_store_key(department, document_type, disease_category)
        loaded == load_vector_store(vector_stores, disk, store_key)
        embedded == fail # "embed"
        index == IF loaded.found THEN loaded.index \o documents ELSE documents
        saved == embedded /\ fail # "save"
        meta == UpdatedMetadata(metadata_cache, store_key, department,
                                document_type, disease_category, Len(documents))
        written == saved /\ fail # "meta"
    IN  IF documents = <<>>
        THEN [ok |-> FALSE, stores |-> vector_stores, meta |-> metadata_cache,
              dk |-> disk]
        ELSE [ok |-> written,
              stores |-> IF embedded THEN Put(loaded.stores, store_key, index)
                         ELSE loaded.stores,
              meta |-> IF saved THEN meta ELSE metadata_cache,
              dk |-> [disk EXCEPT ![store_key] =
                        [dir |-> @.dir \/ embedded,
                         has_index |-> @.has_index \/ saved,
                         index |-> IF saved THEN index ELSE @.index,
                         has_meta |-> @.has_meta \/ written,
                         meta |-> IF written THEN MetaOf(meta, store_key)
                                  ELSE @.meta]]]

\* a delete_store that reports a partition without a directory as a failure
delete_store_missing_is_error(department, document_type, disease_category, fail) ==
    LET store_key == get_store_key(department, document_type, disease_category)
    IN  [ok |-> disk[store_key].dir /\ ~fail,
         stores |-> IF store_key \in DOMAIN vector_stores
                    THEN Drop(vector_stores, store_key) ELSE vector_stores,
         meta |-> SelectSeq(metadata_cache, LAMBDA m : m.key # store_key),
         dk |-> IF fail THEN disk ELSE [disk EXCEPT ![store_key] = NoDirectory]]

\* delete_store: what it returns and the state it leaves; fail: rmtree raises
delete_store(department, document_type, disease_category, fail) ==
    LET store_key == get_store_key(department, document_type, disease_category)
    IN  [ok |-> ~(fail /\ disk[store_key].dir),
         stores |-> IF store_key \in DOMAIN vector_stores
                    THEN Drop(vector_stores, store_key) ELSE vector_stores,
         meta |-> SelectSeq(metadata_cache, LAMBDA m : m.key # store_key),
         dk |-> IF fail THEN disk ELSE [disk EXCEPT ![store_key] = NoDirectory]]

\* a stable sort of results ascending by score: list.sort(key = score)
RECURSIVE InsertByScore(_, _)
InsertByScore(r, s) ==
    IF s = <<>> THEN <<r>>
    ELSE IF Head(s).score <= r.score THEN <<Head(s)>> \o InsertByScore(r, Tail(s))
    ELSE <<r>> \o s

RECURSIVE SortByScore(_)
SortByScore(s) ==
    IF s = <<>> THEN <<>>
    ELSE InsertByScore(s[Len(s)], SortByScore(SubSeq(s, 1, Len(s) - 1)))

\* s[:k]
Take(s, k) == SubSeq(s, 1, Min(k, Len(s)))

\* FAISS.similarity_search_with_score(query, k) on an index: its k nearest
\* chunks with their distances, nearest first
similarity_search_with_score(index, store_key, query, k) ==
    Take(SortByScore([i \in 1..Len(index) |->
                        [chunk |-> index[i], score |-> Distance(query, index[i]),
                         store_key |-> store_key]]), k)

RECURSIVE Flatten(_)
Flatten(ss) == IF ss = <<>> THEN <<>> ELSE Head(ss) \o Flatten(Tail(ss))

\* the keys a loop over metadata_cache.items() appends, in dict order, given
\* what it appends for each partition
Candidates(per) == Flatten(per)

\* a router without the fallback: the exact key or nothing
target_stores_exact_only(mc, department, document_type, disease_category) ==
    IF department # None /\ document_type # None
    THEN LET store_key == get_store_key(department, document_type, disease_category)
         IN  IF store_key \in MetaKeys(mc) THEN <<store_key>> ELSE <<>>
    ELSE Candidates([i \in 1..Len(mc) |->
             IF /\ (department = None \/ mc[i].department = department)
                /\ (document_type = None \/ mc[i].document_type = document_type)
                /\ (disease_category = None
                        \/ mc[i].disease_category = disease_category)
             THEN <<mc[i].key>> ELSE <<>>])

\* a router that adds the siblings of the exact partition to its targets
target_stores_with_siblings(mc, department, document_type, disease_category) ==
    IF department # None /\ document_type # None
    THEN Candidates([i \in 1..Len(mc) |->
             IF mc[i].department = department /\ mc[i].document_type = document_type
             THEN <<mc[i].key>> ELSE <<>>])
    ELSE Candidates([i \in 1..Len(mc) |->
             IF /\ (department = None \/ mc[i].department = department)
                /\ (document_type = None \/ mc[i].document_type = document_type)
                /\ (disease_category = None
                        \/ mc[i].disease_category = disease_category)
             THEN <<mc[i].key>> ELSE <<>>])

\* a router whose filter pass does not compare the disease category
target_stores_ignoring_category(mc, department, document_type, disease_category) ==
    IF department # None /\ document_type # None
    THEN LET store_key == get_store_key(department, document_type, disease_category)
         IN  IF store_key \in MetaKeys(mc) THEN <<store_key>> ELSE <<>>
    ELSE Candidates([i \in 1..Len(mc) |->
             IF /\ (department = None \/ mc[i].department = department)
                /\ (document_type = None \/ mc[i].document_type = document_type)
             THEN <<mc[i].key>> ELSE <<>>])

\* search_documents: the stores it decides to search, in order
target_stores(mc, department, document_type, disease_category) ==
    IF department # None /\ document_type # None
    THEN LET store_key == get_store_key(department, document_type, disease_category)
             same(m) == m.department = department /\ m.document_type = document_type
             first(m) ==
                 IF ~same(m) THEN <<>>
                 ELSE IF disease_category = None THEN <<m.key>>
                 ELSE IF m.disease_category = disease_category
                      THEN <<m.key, m.key>> ELSE <<m.key>>
             second(m) == IF same(m) THEN <<m.key>> ELSE <<>>
             fallback_candidates == Candidates([i \in 1..Len(mc) |-> first(mc[i])])
         IN  IF store_key \in MetaKeys(mc) THEN <<store_key>>
             ELSE IF fallback_candidates = <<>> /\ disease_category # None
                  THEN Candidates([i \in 1..Len(mc) |-> second(mc[i])])
                  ELSE fallback_candidates
    ELSE LET match(m) ==
                 IF /\ (department = None \/ m.department = department)
                    /\ (document_type = None \/ m.document_type = document_type)
                    /\ (disease_category = None
                            \/ m.disease_category = disease_category)
                 THEN <<m.key>> ELSE <<>>
         IN  Candidates([i \in 1..Len(mc) |-> match(mc[i])])

\* the filter of search_documents on the results of one store
PassesThreshold(score, score_threshold) == score >= score_threshold

\* one turn of the loop of search_documents over the target stores: the
\* filtered results of one store, none where the store cannot be loaded or
\* where its search raised (the stores in `down` are those for which the
\* embedding of the query raises during this call)
StoreResults(stores, store_key, query, k, score_threshold, down) ==
    LET loaded == load_vector_store(stores, disk, store_key)
    IN  IF loaded.found /\ store_key \notin down
        THEN SelectSeq(similarity_search_with_score(loaded.index, store_key,
                                                    query, k),
                       LAMBDA r : PassesThreshold(r.score, score_threshold))
        ELSE <<>>

\* the loop of search_documents over the target stores; a turn leaves the
\* index it loaded resident and changes nothing else, so the turns are taken
\* independently and joined in the order of the targets
SearchStores(targets, stores, query, k, score_threshold, down) ==
    LET T == {targets[i] : i \in 1..Len(targets)}
        found == {key \in T : load_vector_store(stores, disk, key).found}
        per == [i \in 1..Len(targets) |->
                  StoreResults(stores, targets[i], query, k, score_threshold, down)]
    IN  [results |-> Flatten(per),
         stores |-> [key \in DOMAIN stores \cup found |->
                       load_vector_store(stores, disk, key).index],
         swallowed |-> found \cap down,
         returned |-> {targets[i] : i \in {j \in 1..Len(targets) : per[j] # <<>>}}]

\* a search_documents that truncates the joined lists without sorting them
search_documents_unsorted(query, k, department, document_type, disease_category, score_threshold, down) ==
    LET targets == target_stores(metadata_cache, department, document_type,
                                 disease_category)
        searched == SearchStores(targets, vector_stores, query, k,
                                 score_threshold, down)
    IN  [targets |-> targets,
         results |-> Take(searched.results, k),
         stores |-> searched.stores,
         swallowed |-> searched.swallowed,
         returned |-> searched.returned,
         merged |-> Len(searched.results)]

\* search_documents: what it returns, the resident indexes it leaves, the
\* stores whose exception it logged and swallowed, the stores whose search
\* returned a chunk, and the number of results before the final truncation
search_documents(query, k, department, document_type, disease_category, score_threshold, down) ==
    LET targets == target_stores(metadata_cache, department, document_type,
                                 disease_category)
        searched == SearchStores(targets, vector_stores, query, k,
                                 score_threshold, down)
    IN  [targets |-> targets,
         results |-> Take(SortByScore(searched.results), k),
         stores |-> searched.stores,
         swallowed |-> searched.swallowed,
         returned |-> searched.returned,
         merged |-> Len(searched.results)]

\* the store observation and history before any operation
NoSobs ==
    [op |-> "none", ok |-> TRUE, key |-> <<>>, department |-> None,
     document_type |-> None, disease_category |-> None, k |-> 0,
     score_threshold |-> 0, targets |-> <<>>, results |-> <<>>,
     swallowed |-> {}, returned |-> {}, merged |-> 0]

NoAdds == [sum |-> 0, clean |-> TRUE]

\* the value medical_retrieve returns: the citations in rank order, the
\* context text as the list of its snippets, whether the diagnostics carry
\* an error, their total_results, and the diagnostics of the enhancements
NoResult ==
    [citations |-> <<>>, context_text |-> <<>>, error |-> FALSE,
     total_results |-> 0, enabled |-> FALSE, suggestions |-> <<>>,
     associations |-> <<>>, weights |-> <<>>]

\* the retrieval observation before any retrieval
NoRobs ==
    [op |-> "none", request |-> <<>>, fresh |-> FALSE, was_stale |-> FALSE,
     stored |-> NoResult, ret |-> NoResult, invoked |-> {}, swallowed |-> {},
     quality |-> 0, query |-> <<>>, targets |-> <<>>]

\* a thread that is in no call of the manager. In a call of add_documents:
\* pc is the statement it is about to execute, p the partition, documents
\* the chunks, ref what its local vector_store refers to ("none": None,
\* "resident": the object in vector_stores, "own": an object no longer in
\* vector_stores, whose chunks are obj), mref and count the same for its
\* local metadata and the document_count it read or wrote
Outside ==
    [pc |-> "idle", p |-> <<>>, documents |-> <<>>, ref |-> "none", obj |-> <<>>,
     mref |-> "none", count |-> 0]

\* the threads that call the manager
Callers == {"t1", "t2"}

\* the observation of the threads before any call returned
NoCobs == [op |-> "none", caller |-> None, key |-> <<>>, read |-> {}, unsaved |-> {}]

\* a manager constructed over an empty base_path
\* the keys of the calls made through the cache interface: two namespaces
\* of which one name begins the other, two keys in the first
BackendRequests ==
    {<<"medical_association", "a">>, <<"medical_association", "b">>,
     <<"medical_associations", "a">>}

BackendKeys == {generate_key(r[1], r[2]) : r \in BackendRequests}

\* a key Redis does not hold
Absent ==
    [present |-> FALSE, data |-> None, timestamp |-> 0, ttl |-> 0,
     access_count |-> 0, written |-> 0]

\* the observation of the cache interface before any call
NoBobs ==
    [op |-> "none", cache_type |-> None, key_data |-> None, ret |-> None,
     from |-> "none", raised |-> FALSE, evicted |-> {}, removed |-> {}]

\* CacheService() as the module constructs it with no REDIS_URL set, and a
\* Redis server holding nothing
BackendIdle ==
    /\ impl = "memory"
    /\ redis = [k \in BackendKeys |-> Absent]
    /\ tasks = <<>>
    /\ bobs = NoBobs

StoreIdle ==
    /\ BackendIdle
    /\ metadata_cache = <<>>
    /\ vector_stores = <<>>
    /\ disk = [key \in StoreKeys |-> NoDirectory]
    /\ sobs = NoSobs
    /\ addSum = [key \in StoreKeys |-> NoAdds]
    /\ robs = NoRobs
    /\ stale = {}
    /\ preAdd = {}
    /\ callers = [t \in Callers |-> Outside]
    /\ calls = 0
    /\ cobs = NoCobs

(***************************************************************************)
(* The cache as a state machine: get, set and invalidate of CacheService,  *)
(* and the passing of time.                                                *)
(***************************************************************************)
CacheTypes == {"query_result", "kg_expansion"}

Values == {"v1", "v2"}

\* the ttl argument of set: omitted (0), or a number of seconds
TtlInputs == {0, 60}

\* the steps the clock advances by
TickSteps == {1, 60}

\* the requests of SpecCache, in two namespaces
Requests == {<<"query_result", "a">>, <<"kg_expansion", "a">>}

CacheKeys == {generate_key(r[1], r[2]) : r \in Requests}

NoObs == [op |-> "none", key |-> <<None, None>>, ret |-> None, evicted |-> {}, n |-> 0]

NeverSet == [isSet |-> FALSE, value |-> None, req |-> 0, at |-> 0]

\* the history of sets, after the keys of `gone` were invalidated or evicted:
\* it keeps the sets whose entry was neither
Forget(hist, gone) ==
    [k \in DOMAIN hist |-> IF k \in gone THEN NeverSet ELSE hist[k]]

\* no entry under key has been hit `bound` times yet
AccessBelow(key, bound) ==
    \A i \in 1..Len(cache) : cache[i].key = key => cache[i].access_count < bound

\* the number of clock advances that led to time t (the steps are 1 and 60)
TicksAt(t) == (t % 60) + (t \div 60)

Tick(d) ==
    /\ TicksAt(now) < MaxTicks
    /\ now' = now + d
    /\ obs' = NoObs
    /\ UNCHANGED <<max_size, cache, lastSet>>
    /\ UNCHANGED <<storeVars, pipeVars, callVars, backVars>>

\* CacheService.get(cache_type, key_data)
Get(cache_type, key_data) ==
    LET key == generate_key(cache_type, key_data)
    IN  /\ cache' = memory_get_cache(cache, cache_type, key_data, now)
        /\ obs' = [NoObs EXCEPT !.op = "get", !.key = key,
                     !.ret = memory_get_value(cache, cache_type, key_data, now)]
        /\ UNCHANGED <<now, max_size, lastSet>>
        /\ UNCHANGED <<storeVars, pipeVars, callVars, backVars>>

\* CacheService.set(cache_type, key_data, value, ttl)
Set(cache_type, key_data, value, ttl) ==
    LET key == generate_key(cache_type, key_data)
        swept == SweptForSet(cache, now)
        evicted == EvictedKeys(swept, max_size)
    IN  /\ cache' = memory_set(cache, max_size, cache_type, key_data, value, ttl, now)
        /\ obs' = [NoObs EXCEPT !.op = "set", !.key = key, !.evicted = evicted,
                     !.n = Len(swept)]
        /\ lastSet' = [k \in DOMAIN lastSet |->
                         IF k = key
                         THEN [isSet |-> TRUE, value |-> value, req |-> ttl,
                               at |-> now]
                         ELSE Forget(lastSet, evicted)[k]]
        /\ UNCHANGED <<now, max_size>>
        /\ UNCHANGED <<storeVars, pipeVars, callVars, backVars>>

\* CacheService.invalidate(cache_type, key_data); key_data = None: the namespace
Invalidate(cache_type, key_data) ==
    /\ cache' = memory_invalidate(cache, cache_type, key_data)
    /\ obs' = [NoObs EXCEPT !.op = "invalidate",
                 !.key = generate_key(cache_type, key_data)]
    /\ lastSet' = Forget(lastSet, Keys(cache) \ Keys(cache'))
    /\ UNCHANGED <<now, max_size>>
    /\ UNCHANGED <<storeVars, pipeVars, callVars, backVars>>

InitCache ==
    /\ now = 0
    /\ max_size = CacheMaxSize
    /\ cache = <<>>
    /\ obs = NoObs
    /\ lastSet = [k \in CacheKeys |-> NeverSet]
    /\ StoreIdle

NextCache ==
    \/ \E d \in TickSteps : Tick(d)
    \/ \E r \in Requests : AccessBelow(generate_key(r[1], r[2]), MaxAccess) /\ Get(r[1], r[2])
    \/ \E r \in Requests, v \in Values, ttl \in TtlInputs : Set(r[1], r[2], v, ttl)
    \/ \E r \in Requests : Invalidate(r[1], r[2])
    \/ \E ct \in CacheTypes : Invalidate(ct, None)

SpecCache == InitCache /\ [][NextCache]_vars

C1_Witness_Hit ==
    /\ obs.op = "get"
    /\ lastSet[obs.key].isSet /\ lastSet[obs.key].req = 60
    /\ now - lastSet[obs.key].at = 60
    /\ obs.ret = lastSet[obs.key].value

SeedPatterns == {"same", "descending"}

SeedTimestamp(pat, i) ==
    IF pat = "same" THEN 0 ELSE IF i = EvictFill THEN EvictFill ELSE EvictFill - i

SeedCache(pat) ==
    [i \in 1..EvictFill |->
        [key |-> generate_key("query_result", i), data |-> "v1",
         timestamp |-> SeedTimestamp(pat, i), ttl |-> ttl_config("query_result"),
         access_count |-> 0]]

RECURSIVE TotalAccess(_)
TotalAccess(cache_dict) ==
    IF cache_dict = <<>> THEN 0
    ELSE Head(cache_dict).access_count + TotalAccess(Tail(cache_dict))

\* the key data written by the evicting set: a new key (0), or the first key
EvictSetKeys == {0, 1}

InitEvict ==
    /\ now = EvictFill
    /\ max_size = EvictFill
    /\ \E pat \in SeedPatterns : cache = SeedCache(pat)
    /\ obs = NoObs
    /\ lastSet = <<>>
    /\ StoreIdle

NextEvict ==
    \/ \E i \in 1..EvictFill :
          TotalAccess(cache) < MaxReads /\ Get("query_result", i)
    \/ \E kd \in EvictSetKeys : Set("query_result", kd, "v2", 0)

SpecEvict == InitEvict /\ [][NextEvict]_vars

LexLeq(a, b) ==
    \/ a.access_count < b.access_count
    \/ a.access_count = b.access_count /\ a.timestamp <= b.timestamp

\* C5: a set that finds the n stored entries at capacity evicts max(1, n div 10)
\* of them, each no higher in (access_count, created_at) order than any entry
\* it keeps; so a key with at least that many entries of smaller access_count
\* below it is still stored after the set, and a get of it hits (while its TTL
\* has not run out).
C5_EvictLowest ==
    [][ LET stored == SweptForSet(cache, now)
            n == Len(stored)
            count == IF n \div 10 >= 1 THEN n \div 10 ELSE 1
            ev == obs'.evicted
        IN  (obs'.op = "set" /\ n >= max_size) =>
              /\ Cardinality(ev) = count
              /\ ev \subseteq Keys(stored)
              /\ \A i, j \in 1..n :
                    (stored[i].key \in ev /\ stored[j].key \notin ev)
                        => LexLeq(stored[i], stored[j])
              /\ Keys(cache') = (Keys(stored) \ ev) \cup {obs'.key}
              /\ \A i \in 1..n :
                    Cardinality({j \in 1..n :
                        stored[j].access_count < stored[i].access_count}) >= count
                    => /\ stored[i].key \in Keys(cache')
                       /\ (stored[i].key # obs'.key /\ ~is_expired(stored[i], now))
                            => memory_get_value(cache', stored[i].key[1],
                                                stored[i].key[2], now)
                                 = stored[i].data
      ]_vars

\* a set at capacity evicted two entries, and the first-stored entry, oldest
\* or tied for oldest but read twice beforehand, is still stored
C5_Witness ==
    /\ obs.op = "set"
    /\ Cardinality(obs.evicted) = 2
    /\ cache[1].key = generate_key("query_result", 1)
    /\ cache[1].access_count = 2
    /\ \A i \in 1..Len(cache) : cache[1].timestamp <= cache[i].timestamp

(***************************************************************************)
(* The partitioned store as a state machine: add, delete and search of     *)
(* MedicalVectorStoreManager, and the construction of a new manager over   *)
(* the directories the last one left.                                      *)
(***************************************************************************)
\* the batches of chunks handed to add_documents
Batches == {<<>>, <<"c1">>, <<"c2", "c3">>}

\* the filter values of a search: W names a category no partition has
DepartmentFilters == {None, "A", "B"}

DocumentTypeFilters == {None, "X"}

DiseaseCategoryFilters == {None, "Y", "W"}

\* the k and score_threshold of a search
SearchLimits == {1, 2}

ScoreThresholds == {0, 50}

\* the stores for which the embedding of the query raises during one search
DownSets == {{}, {<<"A", "X", "Y">>}}

\* the chunks the partition of a key holds, resident or on disk
IndexSize(store_key) ==
    IF store_key \in DOMAIN vector_stores THEN Len(vector_stores[store_key])
    ELSE Len(disk[store_key].index)

RECURSIVE IndexSizes(_)
IndexSizes(S) ==
    IF S = {} THEN 0
    ELSE LET x == CHOOSE y \in S : TRUE IN IndexSize(x) + IndexSizes(S \ {x})

\* the chunks all partitions hold together
TotalDocs == IndexSizes(StoreKeys)

\* MedicalVectorStoreManager.add_documents
AddDocuments(documents, p, fail) ==
    \E store_key \in {get_store_key(p[1], p[2], p[3])},
       r \in {add_documents(documents, p[1], p[2], p[3], fail)} :
        /\ TotalDocs + Len(documents) <= MaxDocs
        /\ vector_stores' = r.stores
        /\ metadata_cache' = r.meta
        /\ disk' = r.dk
        /\ sobs' = [NoSobs EXCEPT !.op = "add", !.ok = r.ok, !.key = store_key]
        /\ addSum' = [addSum EXCEPT ![store_key] =
                        IF r.ok THEN [@ EXCEPT !.sum = @ + Len(documents)]
                        ELSE IF documents = <<>> THEN @
                        ELSE [@ EXCEPT !.clean = FALSE]]
        /\ UNCHANGED <<cacheVars, pipeVars, callVars, backVars>>

\* MedicalVectorStoreManager.delete_store
DeleteStore(p, fail) ==
    \E store_key \in {get_store_key(p[1], p[2], p[3])},
       r \in {delete_store(p[1], p[2], p[3], fail)} :
        /\ vector_stores' = r.stores
        /\ metadata_cache' = r.meta
        /\ disk' = r.dk
        /\ sobs' = [NoSobs EXCEPT !.op = "delete", !.ok = r.ok, !.key = store_key]
        /\ addSum' = [addSum EXCEPT ![store_key] =
                        IF r.ok THEN NoAdds ELSE [@ EXCEPT !.clean = FALSE]]
        /\ UNCHANGED <<cacheVars, pipeVars, callVars, backVars>>

\* MedicalVectorStoreManager.search_documents
Search(query, k, department, document_type, disease_category, score_threshold, down) ==
    \E r \in {search_documents(query, k, department, document_type,
                                disease_category, score_threshold, down)} :
        /\ vector_stores' = r.stores
        /\ sobs' = [NoSobs EXCEPT !.op = "search", !.department = department,
                      !.document_type = document_type,
                      !.disease_category = disease_category, !.k = k,
                      !.score_threshold = score_threshold,
                      !.targets = r.targets, !.results = r.results,
                      !.swallowed = r.swallowed, !.returned = r.returned,
                      !.merged = r.merged]
        /\ UNCHANGED <<metadata_cache, disk, addSum>>
        /\ UNCHANGED <<cacheVars, pipeVars, callVars, backVars>>

\* the orders in which iterdir() can list a set of directories
Orders(S) ==
    {o \in [1..Cardinality(S) -> S] : \A i, j \in DOMAIN o : o[i] = o[j] => i = j}

\* a construction that loads the index of every directory it finds
Restart_loading_indexes ==
    /\ \E o \in Orders({key \in StoreKeys : disk[key].dir /\ disk[key].has_meta}) :
          metadata_cache' = [i \in DOMAIN o |-> disk[o[i]].meta]
    /\ vector_stores' = [key \in {k \in StoreKeys : disk[k].dir /\ disk[k].has_index}
                            |-> disk[key].index]
    /\ sobs' = [NoSobs EXCEPT !.op = "restart"]
    /\ UNCHANGED <<disk, addSum>>
    /\ UNCHANGED <<cacheVars, pipeVars, callVars, backVars>>

\* MedicalVectorStoreManager.__init__ over the directories on disk:
\* _load_existing_stores reads every metadata.json and loads no index
Restart ==
    /\ \E o \in Orders({key \in StoreKeys : disk[key].dir /\ disk[key].has_meta}) :
          metadata_cache' = [i \in DOMAIN o |-> disk[o[i]].meta]
    /\ vector_stores' = <<>>
    /\ sobs' = [NoSobs EXCEPT !.op = "restart"]
    /\ UNCHANGED <<disk, addSum>>
    /\ UNCHANGED <<cacheVars, pipeVars, callVars, backVars>>

CacheIdle ==
    /\ now = 0
    /\ max_size = CacheMaxSize
    /\ cache = <<>>
    /\ obs = NoObs
    /\ lastSet = <<>>

InitStore == StoreIdle /\ CacheIdle

\* the partitions whose life the faulty store follows: one with a disease
\* category and one without
LifecyclePartitions == {<<"A", "X", "Y">>, <<"B", "X", None>>}

NextStore ==
    \/ \E documents \in Batches, p \in LifecyclePartitions, fail \in AddFailures :
          AddDocuments(documents, p, fail)
    \/ \E p \in LifecyclePartitions, fail \in BOOLEAN : DeleteStore(p, fail)
    \/ Restart

\* the partition store with its faults: add and delete can fail at each of
\* their steps, and a new manager can be constructed over the directories
SpecStore == InitStore /\ [][NextStore]_vars

NextRouter ==
    \/ \E documents \in Batches, p \in PartitionSpecs :
          AddDocuments(documents, p, "none")
    \/ \E p \in PartitionSpecs : DeleteStore(p, FALSE)
    \/ \E query \in Queries, k \in SearchLimits, department \in DepartmentFilters,
          document_type \in DocumentTypeFilters,
          disease_category \in DiseaseCategoryFilters,
          score_threshold \in ScoreThresholds, down \in DownSets :
          Search(query, k, department, document_type, disease_category,
                 score_threshold, down)

\* the router: searches under every filter over partitions that adds and
\* deletes build up, the embedding provider failing for some store or none
SpecRouter == InitStore /\ [][NextRouter]_vars

(***************************************************************************)
(* Claims on the partition store and the router.                           *)
(***************************************************************************)
\* the chunks the partition of a key holds, resident or on disk
IndexOfKey(store_key) ==
    IF store_key \in DOMAIN vector_stores THEN vector_stores[store_key]
    ELSE disk[store_key].index

\* the keys of the partitions of a department and document type
PartitionsOf(department, document_type) ==
    {metadata_cache[i].key : i \in
        {j \in 1..Len(metadata_cache) :
            /\ metadata_cache[j].department = department
            /\ metadata_cache[j].document_type = document_type}}

ResultKeys(results) == {results[i].store_key : i \in 1..Len(results)}

\* C3: a search for department A, document type X and a disease category W
\* that no partition has searches exactly the partitions of A and X, returns
\* chunks of those partitions only, as many as the limit k allows of what
\* the partitions returned, hence some chunk whenever a partition returned
\* one, and it returns: an exception of one store's search is not raised.
C3_FallbackMerges ==
    (/\ sobs.op = "search"
     /\ sobs.department = "A" /\ sobs.document_type = "X"
     /\ sobs.disease_category = "W") =>
        /\ sobs.ok
        /\ {sobs.targets[i] : i \in 1..Len(sobs.targets)} = PartitionsOf("A", "X")
        /\ ResultKeys(sobs.results) \subseteq PartitionsOf("A", "X")
        /\ \A i \in 1..Len(sobs.results) :
              \E j \in 1..Len(IndexOfKey(sobs.results[i].store_key)) :
                  IndexOfKey(sobs.results[i].store_key)[j] = sobs.results[i].chunk
        /\ Len(sobs.results) = Min(sobs.k, sobs.merged)
        /\ sobs.returned # {} => sobs.results # <<>>

\* the fallback search returned chunks of both A_X_Y and A_X_Z
C3_Witness ==
    /\ sobs.op = "search"
    /\ sobs.department = "A" /\ sobs.document_type = "X"
    /\ sobs.disease_category = "W"
    /\ ResultKeys(sobs.results) = {<<"A", "X", "Y">>, <<"A", "X", "Z">>}

\* C4: a partition built from nothing by successful adds alone, of batches
\* of n1..nm chunks, has document_count n1 + ... + nm.
C4_CountIsSumOfAdds ==
    \A key \in StoreKeys :
        (addSum[key].clean /\ addSum[key].sum > 0) =>
            /\ key \in MetaKeys(metadata_cache)
            /\ MetaOf(metadata_cache, key).document_count = addSum[key].sum

\* the same chunk added twice to a fresh partition, counted twice
C4_Witness ==
    \E key \in StoreKeys :
        /\ addSum[key].clean /\ addSum[key].sum = 2
        /\ IndexOfKey(key) = <<"c1", "c1">>
        /\ key \in MetaKeys(metadata_cache)
        /\ MetaOf(metadata_cache, key).document_count = 2

\* C10: a search returns at most k results, each at a distance no greater
\* than the score threshold.
C10_WithinThreshold ==
    sobs.op = "search" =>
        /\ Len(sobs.results) <= sobs.k
        /\ \A i \in 1..Len(sobs.results) :
              sobs.results[i].score <= sobs.score_threshold

\* the part of C10 the code keeps: at most k results
C10_AtMostK == sobs.op = "search" => Len(sobs.results) <= sobs.k

\* the number of times r occurs in the sequence s
CountIn(s, r) == Cardinality({i \in 1..Len(s) : s[i] = r})

\* the result lists of the partitions the last search went through, joined
\* in the order of the targets (a search loads indexes and changes none)
SearchedLists ==
    Flatten([i \in 1..Len(sobs.targets) |->
               StoreResults(vector_stores, sobs.targets[i], <<"q">>, sobs.k,
                            sobs.score_threshold, sobs.swallowed)])

\* C11: the result of a search is the joined result lists of the searched
\* partitions sorted ascending by distance and cut to k: non-decreasing in
\* distance, at most k items, all of them when there are no more than k,
\* each taken from the lists, and no item left out is strictly closer than
\* a returned one.
C11_SortedPrefixOfMerge ==
    sobs.op = "search" =>
        /\ sobs.results = Take(SortByScore(SearchedLists), sobs.k)
        /\ Len(sobs.results) = Min(sobs.k, Len(SearchedLists))
        /\ \A i \in 1..Len(sobs.results) - 1 :
              sobs.results[i].score <= sobs.results[i + 1].score
        /\ \A i \in 1..Len(sobs.results) :
              CountIn(sobs.results, sobs.results[i])
                  <= CountIn(SearchedLists, sobs.results[i])
        /\ \A j \in 1..Len(SearchedLists) :
              CountIn(sobs.results, SearchedLists[j])
                  < CountIn(SearchedLists, SearchedLists[j])
              => \A i \in 1..Len(sobs.results) :
                    sobs.results[i].score <= SearchedLists[j].score

\* a search through two partitions whose joined lists are out of order and
\* longer than k
C11_Witness ==
    /\ sobs.op = "search"
    /\ Cardinality(sobs.returned) >= 2
    /\ Len(SearchedLists) > sobs.k
    /\ Len(sobs.results) = sobs.k
    /\ \E j \in 1..Len(SearchedLists) - 1 :
          SearchedLists[j].score > SearchedLists[j + 1].score

\* the keys of the partitions that match the department and the document
\* type of the last search, where a field that was not supplied matches all
RemainingFieldPartitions ==
    {metadata_cache[i].key : i \in
        {j \in 1..Len(metadata_cache) :
            /\ (sobs.department = None
                    \/ metadata_cache[j].department = sobs.department)
            /\ (sobs.document_type = None
                    \/ metadata_cache[j].document_type = sobs.document_type)}}

\* the last search supplied exactly one of department and document type and a
\* disease category that none of the partitions of that field has
OneFieldAndUnmatchedCategory ==
    /\ sobs.op = "search"
    /\ (sobs.department = None) # (sobs.document_type = None)
    /\ sobs.disease_category # None
    /\ RemainingFieldPartitions # {}
    /\ \A i \in 1..Len(metadata_cache) :
          metadata_cache[i].key \in RemainingFieldPartitions =>
              metadata_cache[i].disease_category # sobs.disease_category

\* C18: a search with only one of department and document type and a disease
\* category that no partition of that field has searches the partitions of
\* that field, ignoring the category, and returns what they returned instead
\* of an empty result.
C18_WidensWithoutCategory ==
    OneFieldAndUnmatchedCategory =>
        /\ {sobs.targets[i] : i \in 1..Len(sobs.targets)} = RemainingFieldPartitions
        /\ sobs.returned # {} => sobs.results # <<>>

(***************************************************************************)
(* The retrieval pipeline: medical_retrieve of                             *)
(* services/enhanced_rag_service.py over the search of                     *)
(* services/enhanced_index_service.py.                                     *)
(***************************************************************************)
\* EnhancedMedicalRAGService.k
RetrieveK == 5

\* the ttl of a cached retrieval result, and of a cached enhancement
ResultTtl == 300

EnhancementTtl == 600

\* the quality from which the enhancements run, and the quality above which
\* the search is wide (k results, the low threshold)
quality_threshold == 60

HighQuality == 70

LowScoreThreshold == 30

HighScoreThreshold == 50

\* the score_threshold that search_documents defaults to
DefaultScoreThreshold == 0

\* the values of the members of MedicalDepartment and DocumentType that the
\* model uses; a member is written as its value
MedicalDepartmentValues == {"A", "B"}

DocumentTypeValues == {"X"}

\* DiseaseCategory.MENTAL_DISORDERS, whose value "精神、行为和神经发育障碍" the
\* model writes as its category Y
MENTAL_DISORDERS == "Y"

\* DiseaseCategory.NERVOUS_SYSTEM, whose value "神经系统疾病" the model writes
\* as its category Z
NERVOUS_SYSTEM == "Z"

DiseaseCategoryValues == {MENTAL_DISORDERS, NERVOUS_SYSTEM, "W"}

\* Enum(value): the member that has the value (a member gives itself), and
\* ValueError where no member has it
EnumOf(values, value) ==
    IF value \in values THEN [raised |-> FALSE, member |-> value]
    ELSE [raised |-> TRUE, member |-> None]

\* alias_map of MedicalSearchEngine.search; its keys "精神障碍", "心理障碍"
\* and "精神疾病" are written in Latin letters
alias_map ==
    "jingshen zhangai" :> MENTAL_DISORDERS
        @@ "xinli zhangai" :> MENTAL_DISORDERS
        @@ "jingshen jibing" :> NERVOUS_SYSTEM
        @@ NERVOUS_SYSTEM :> NERVOUS_SYSTEM
        @@ MENTAL_DISORDERS :> MENTAL_DISORDERS
        @@ "mental disorders" :> MENTAL_DISORDERS
        @@ "nervous system" :> NERVOUS_SYSTEM

\* a filter that is absent or falsy stays None, one that is present becomes
\* its member, or None where the constructor raises ValueError
filter_member(values, value) ==
    IF value = None THEN None ELSE EnumOf(values, value).member

\* the disease_category filter of MedicalSearchEngine.search: where the
\* constructor raises, the alias of the string (no string of the model has
\* surrounding blanks for strip to remove), or None
filter_disease_category(value) ==
    IF value = None THEN None
    ELSE IF ~EnumOf(DiseaseCategoryValues, value).raised
         THEN EnumOf(DiseaseCategoryValues, value).member
    ELSE IF value \in DOMAIN alias_map THEN alias_map[value]
    ELSE None

\* MedicalSearchEngine.search: the filters become enumeration members and
\* search_documents is called without a score threshold
engine_search(query, k, department, document_type, disease_category, down) ==
    search_documents(query, k,
                     filter_member(MedicalDepartmentValues, department),
                     filter_member(DocumentTypeValues, document_type),
                     filter_disease_category(disease_category),
                     DefaultScoreThreshold, down)

\* the filter of search_medical_documents on the results of the engine
PassesServiceThreshold(score, score_threshold) == score >= score_threshold

\* search_medical_documents after the search of the engine returned `found`
service_results(found, score_threshold) ==
    [ok |-> TRUE,
     results |-> SelectSeq(found.results, LAMBDA r :
                    PassesServiceThreshold(r.score, score_threshold)),
     stores |-> found.stores,
     swallowed |-> found.swallowed,
     targets |-> found.targets]

\* search_medical_documents: ok with the filtered results (nothing in the
\* engine raises: search_documents catches the exception of each store)
search_medical_documents(query, k, department, document_type, disease_category, score_threshold, down) ==
    service_results(engine_search(query, k, department, document_type,
                                  disease_category, down),
                    score_threshold)

\* the metadata of a chunk that the ranking reads: every indexed chunk has a
\* department, chunk c1 has evidence level A, and no document type of the
\* index is "guideline" or "protocol"
EvidenceLevel(chunk) == IF chunk = "c1" THEN "A" ELSE None

\* calculate_dynamic_weights, in hundredths, before the division by their sum
calculate_dynamic_weights(quality, confidence, kg_enhancement_used, associations_count) ==
    LET high == quality > 80
        low == ~high /\ quality < 50
        sure == confidence > 80
        many == associations_count > 3
    IN  [semantic_similarity |->
            40 + (IF high THEN 10 ELSE 0) - (IF low THEN 10 ELSE 0)
               - (IF sure THEN 10 ELSE 0) - (IF kg_enhancement_used THEN 5 ELSE 0)
               - (IF many THEN 5 ELSE 0),
         medical_relevance |->
            30 - (IF high THEN 5 ELSE 0) + (IF low THEN 15 ELSE 0)
               + (IF sure THEN 10 ELSE 0) - (IF kg_enhancement_used THEN 5 ELSE 0),
         kg_enhancement |->
            20 - (IF high THEN 5 ELSE 0) - (IF low THEN 5 ELSE 0)
               + (IF kg_enhancement_used THEN 10 ELSE 0),
         medical_associations |-> 10 + (IF many THEN 5 ELSE 0)]

\* a sum of the weights that leaves the weight of the associations out
total_weight_without_associations(w) ==
    w.semantic_similarity + w.medical_relevance + w.kg_enhancement

\* the sum the weights are divided by
total_weight(w) ==
    w.semantic_similarity + w.medical_relevance + w.kg_enhancement
        + w.medical_associations

\* base_weights[key] /= total_weight for every key: each final weight is the
\* fraction of its value (in hundredths) over the sum
normalized_weights(w) ==
    [key \in DOMAIN w |-> [num |-> w[key], den |-> total_weight(w)]]

\* the signals of calculate_weighted_score, in hundredths
medical_score(chunk) == 30 + (IF EvidenceLevel(chunk) \in {"A", "B"} THEN 40 ELSE 0)

Hits(chunk, terms) == Cardinality({i \in 1..Len(terms) : Contains(chunk, terms[i])})

kg_score(chunk, use_enhanced_kg, kg_suggestions) ==
    IF use_enhanced_kg /\ kg_suggestions # <<>>
    THEN Min(20 * Hits(chunk, kg_suggestions), 100) ELSE 0

association_score(chunk, medical_associations) ==
    Min(15 * Hits(chunk, medical_associations), 100)

\* calculate_weighted_score, times 100 * 100 * total_weight: the results of
\* one call share the weights, so their order is that of these numerators
calculate_weighted_score(result, w, use_enhanced_kg, kg_suggestions, medical_associations) ==
    result.score * w.semantic_similarity
        + medical_score(result.chunk) * w.medical_relevance
        + kg_score(result.chunk, use_enhanced_kg, kg_suggestions) * w.kg_enhancement
        + association_score(result.chunk, medical_associations)
            * w.medical_associations

\* results_list.sort(key = weighted_score, reverse = True): a stable sort,
\* descending
RECURSIVE InsertByWeight(_, _)
InsertByWeight(r, s) ==
    IF s = <<>> THEN <<r>>
    ELSE IF Head(s).weighted_score >= r.weighted_score
         THEN <<Head(s)>> \o InsertByWeight(r, Tail(s))
         ELSE <<r>> \o s

RECURSIVE SortByWeight(_)
SortByWeight(s) ==
    IF s = <<>> THEN <<>>
    ELSE InsertByWeight(s[Len(s)], SortByWeight(SubSeq(s, 1, Len(s) - 1)))

\* a get that finds nothing: whatever is stored, no value comes back
cache_get_finds_nothing(cache_dict, cache_type, key_data) ==
    [found |-> FALSE, value |-> None,
     cache |-> memory_get_cache(cache_dict, cache_type, key_data, now)]

\* cache_service.get as the pipeline sees it: whether a value came back (an
\* entry stored and not expired), the value, and the cache the get leaves
cache_get(cache_dict, cache_type, key_data) ==
    [found |-> /\ generate_key(cache_type, key_data) \in Keys(cache_dict)
               /\ ~is_expired(cache_dict[IndexOf(cache_dict,
                                   generate_key(cache_type, key_data))], now),
     value |-> memory_get_value(cache_dict, cache_type, key_data, now),
     cache |-> memory_get_cache(cache_dict, cache_type, key_data, now)]

\* `if cached:` on what a get returned: a value came back and it is not empty
Truthy(got) == got.found /\ got.value # <<>>

\* cache_service.set(cache_type, key_data, value, ttl = ttl)
cache_set(cache_dict, cache_type, key_data, value, ttl) ==
    memory_set(cache_dict, max_size, cache_type, key_data, value, ttl, now)

\* cache_service.set(..., ttl = 600) where the code reaches it
cache_set_if(cond, cache_dict, cache_type, key_data, value) ==
    IF cond THEN cache_set(cache_dict, cache_type, key_data, value, EnhancementTtl)
    ELSE cache_dict

\* the cache key of a retrieval: the question, the filters as passed,
\* intent_method (always "smart" here) and k
retrieval_cache_key(request) == request \o <<"smart", RetrieveK>>

\* the KG enhancement that did not run or raised: use_enhanced_kg is False
KgDisabled(cache_dict, invoked) ==
    [enabled |-> FALSE, entities |-> <<>>, suggestions |-> <<>>,
     relations |-> <<>>, cache |-> cache_dict, invoked |-> invoked]

\* run_kg_enhancement from the collection of the futures: rel is what the get
\* of the relations of the entity returned
kg_collect(rel, suggestions_hit, suggestions, extracted, suggestion_cache_key, asked, kg) ==
    [enabled |-> TRUE,
     entities |-> extracted,
     suggestions |-> Take(suggestions, 2),
     relations |-> Take(IF Truthy(rel) THEN rel.value ELSE kg.relations, 2),
     cache |->
        cache_set_if(~Truthy(rel) /\ kg.relations # <<>>,
            cache_set_if(~suggestions_hit /\ kg.suggestions # <<>>,
                rel.cache, "kg_expansion", suggestion_cache_key, kg.suggestions),
            "entity_relations", extracted[1], Take(kg.relations, 2)),
     invoked |-> IF suggestions_hit /\ Truthy(rel) THEN asked ELSE {"kg"}]

\* run_kg_enhancement from the get of the suggestions of the entity: sug is
\* what it returned. Where it returned nothing and intent recognition ran,
\* intent_result is a dict and reading its attribute `intent` raises.
kg_suggest(sug, extracted, suggestion_cache_key, asked, intent_ran, kg) ==
    IF ~Truthy(sug) /\ intent_ran THEN KgDisabled(sug.cache, {"kg"})
    ELSE kg_collect(cache_get(sug.cache, "entity_relations", extracted[1]),
                    Truthy(sug),
                    IF Truthy(sug) THEN sug.value ELSE kg.suggestions,
                    extracted, suggestion_cache_key, asked, kg)

\* run_kg_enhancement from the entities on: c is the cache after the entity
\* extraction, asked holds "kg" where the knowledge graph was asked for them
kg_expand(c, extracted, asked, confidence, intent_ran, kg) ==
    IF extracted = <<>>
    THEN [enabled |-> TRUE, entities |-> <<>>, suggestions |-> <<>>,
          relations |-> <<>>, cache |-> c, invoked |-> asked]
    ELSE kg_suggest(cache_get(c, "kg_expansion", <<extracted[1], confidence>>),
                    extracted, <<extracted[1], confidence>>, asked, intent_ran, kg)

\* run_kg_enhancement from the get of the entities of the question: ents is
\* what it returned
kg_extract(ents, question, confidence, intent_ran, kg) ==
    IF Truthy(ents)
    THEN kg_expand(ents.cache, ents.value, {}, confidence, intent_ran, kg)
    ELSE IF kg.fails THEN KgDisabled(ents.cache, {"kg"})
    ELSE kg_expand(cache_set(ents.cache, "entity_extraction", question,
                             kg.entities, EnhancementTtl),
                   kg.entities, {"kg"}, confidence, intent_ran, kg)

\* run_kg_enhancement and its except clause. kg is what the knowledge graph
\* would answer: whether the extraction raises, the entities (at most one,
\* with a type), the expansion suggestions and the related entities of the
\* entity. intent_ran: intent recognition ran and returned its dict.
kg_enhancement(cache_dict, question, intent_ran, confidence, kg) ==
    kg_extract(cache_get(cache_dict, "entity_extraction", question),
               question, confidence, intent_ran, kg)

\* the association step from the get of the associations: got is what it
\* returned
association_lookup(got, association_cache_key, assoc) ==
    IF Truthy(got)
    THEN [associations |-> got.value, cache |-> got.cache, invoked |-> {}]
    ELSE IF assoc.fails
    THEN [associations |-> <<>>, cache |-> got.cache, invoked |-> {"assoc"}]
    ELSE [associations |-> assoc.associations,
          cache |-> cache_set(got.cache, "medical_associations",
                              association_cache_key, assoc.associations,
                              EnhancementTtl),
          invoked |-> {"assoc"}]

\* the medical association step and its except clause. assoc is what the
\* association service would answer: whether it raises, and the targets of
\* the associations it finds.
association_enhancement(cache_dict, association_cache_key, assoc) ==
    association_lookup(cache_get(cache_dict, "medical_associations",
                                 association_cache_key),
                       association_cache_key, assoc)

\* the association step where use_enhanced_kg is False: it does not run
NoAssociations(cache_dict) ==
    [associations |-> <<>>, cache |-> cache_dict, invoked |-> {}]

\* the value medical_retrieve returns from its except clauses
ErrorResult == [NoResult EXCEPT !.error = TRUE]

\* what medical_retrieve searches for once intent recognition has run: the
\* filters it fills in where the request has none, and its confidence
understood(request, intent) ==
    LET no_filter == request[2] = None /\ request[3] = None /\ request[4] = None
    IN  [intent_ran |-> no_filter,
         confidence |-> IF no_filter THEN intent.confidence ELSE 0,
         department |->
            IF no_filter /\ intent.department # None THEN intent.department
            ELSE request[2],
         document_type |->
            IF no_filter /\ intent.document_type # None THEN intent.document_type
            ELSE request[3],
         disease_category |->
            IF no_filter /\ intent.disease_category # None
            THEN intent.disease_category ELSE request[4]]

\* the number of suggestions, and of associations, appended to the query
max_terms(u, quality) ==
    IF u.confidence > HighQuality /\ quality > HighQuality THEN 3 ELSE 2

\* kg_enhanced_query as the search receives it: the question followed by the
\* suggestions and the association targets appended to it
enhanced_query(request, u, quality, enhanced, associated) ==
    <<request[1]>> \o Take(enhanced.suggestions, max_terms(u, quality))
                  \o Take(associated.associations, max_terms(u, quality))

\* the citations of the ranked results: enumerate(results_list, start = 1)
\* gives the rank, and the citation_id "med-c" followed by it
citations_of(results_list) ==
    [i \in 1..Len(results_list) |->
        [citation_id |-> <<"med-c", i>>, rank |-> i,
         chunk |-> results_list[i].chunk, score |-> results_list[i].score,
         store_key |-> results_list[i].store_key]]

\* context_text: the snippets of the ranked results joined, or the text
\* that says there are none
context_text_of(results_list) ==
    IF results_list = <<>> THEN <<"(no medical documents found)">>
    ELSE [i \in 1..Len(results_list) |-> <<i, results_list[i].chunk>>]

\* medical_retrieve from the caching of final_result to its return
retrieve_return(final_result, request, u, quality, enhanced, associated, search_results) ==
    [ret |-> final_result,
     cache |-> cache_set(associated.cache, "query_result",
                         retrieval_cache_key(request), final_result, ResultTtl),
     stores |-> search_results.stores,
     invoked |->
        (IF u.intent_ran THEN {"intent"} ELSE {})
            \cup {"quality", "router", "rerank"}
            \cup enhanced.invoked \cup associated.invoked,
     swallowed |-> search_results.swallowed,
     cached |-> TRUE,
     query |-> enhanced_query(request, u, quality, enhanced, associated),
     targets |-> search_results.targets]

\* a medical_retrieve that reports an empty results_list as an error
retrieve_collect_empty_is_error(results_list, dynamic_weights, request, u, quality, enhanced, associated, search_results) ==
    retrieve_return(
        IF results_list = <<>> THEN ErrorResult
        ELSE [citations |-> citations_of(results_list),
              context_text |-> context_text_of(results_list),
              error |-> FALSE,
              total_results |-> Len(results_list),
              enabled |-> enhanced.enabled,
              suggestions |-> enhanced.suggestions,
              associations |-> associated.associations,
              weights |-> dynamic_weights],
        request, u, quality, enhanced, associated, search_results)

\* medical_retrieve from the sorted results_list to final_result: the
\* citations, the context text and the diagnostics
retrieve_collect(results_list, dynamic_weights, request, u, quality, enhanced, associated, search_results) ==
    retrieve_return(
        [citations |-> citations_of(results_list),
         context_text |-> context_text_of(results_list),
         error |-> FALSE,
         total_results |-> Len(results_list),
         enabled |-> enhanced.enabled,
         suggestions |-> enhanced.suggestions,
         associations |-> associated.associations,
         weights |-> dynamic_weights],
        request, u, quality, enhanced, associated, search_results)

\* a medical_retrieve that leaves results_list in the order of the search
retrieve_rank_unsorted(dynamic_weights, request, u, quality, enhanced, associated, search_results) ==
    retrieve_collect(
        [i \in 1..Len(search_results.results) |->
            [chunk |-> search_results.results[i].chunk,
             score |-> search_results.results[i].score,
             store_key |-> search_results.results[i].store_key,
             weighted_score |->
                calculate_weighted_score(search_results.results[i],
                    dynamic_weights, enhanced.enabled,
                    enhanced.suggestions, associated.associations)]],
        dynamic_weights, request, u, quality, enhanced, associated,
        search_results)

\* medical_retrieve from the dynamic weights to the sorted results_list
retrieve_rank(dynamic_weights, request, u, quality, enhanced, associated, search_results) ==
    retrieve_collect(
        SortByWeight(
            [i \in 1..Len(search_results.results) |->
                [chunk |-> search_results.results[i].chunk,
                 score |-> search_results.results[i].score,
                 store_key |-> search_results.results[i].store_key,
                 weighted_score |->
                    calculate_weighted_score(search_results.results[i],
                        dynamic_weights, enhanced.enabled,
                        enhanced.suggestions, associated.associations)]]),
        dynamic_weights, request, u, quality, enhanced, associated,
        search_results)

\* medical_retrieve from the search on: the query is the question followed
\* by the suggestions and the associations, k and the threshold follow the
\* quality
retrieve_search(associated, request, u, quality, enhanced, down) ==
    retrieve_rank(
        calculate_dynamic_weights(quality, u.confidence,
                                  enhanced.enabled /\ enhanced.suggestions # <<>>,
                                  Len(associated.associations)),
        request, u, quality, enhanced, associated,
        search_medical_documents(
            enhanced_query(request, u, quality, enhanced, associated),
            IF quality > HighQuality THEN RetrieveK ELSE Max(3, RetrieveK - 2),
            u.department, u.document_type, u.disease_category,
            IF quality > HighQuality THEN LowScoreThreshold
            ELSE HighScoreThreshold,
            down))

\* medical_retrieve from the association step on: it runs where
\* use_enhanced_kg is still True
retrieve_associate(enhanced, request, u, quality, assoc, down) ==
    retrieve_search(
        IF enhanced.enabled
        THEN association_enhancement(enhanced.cache,
                 <<request[1], u.department, u.document_type,
                   u.disease_category>>, assoc)
        ELSE NoAssociations(enhanced.cache),
        request, u, quality, enhanced, down)

\* a retrieval that enhances the query whatever its quality
retrieve_lookup_always_enhances(cached_result, request, u, intent, quality, kg, assoc, down) ==
    IF cached_result.found
    THEN [ret |-> cached_result.value, cache |-> cached_result.cache,
          stores |-> vector_stores, invoked |-> {}, swallowed |-> {},
          cached |-> FALSE, query |-> <<>>,
          targets |-> <<>>]
    ELSE IF u.intent_ran /\ intent.fails
    THEN [ret |-> ErrorResult, cache |-> cached_result.cache,
          stores |-> vector_stores, invoked |-> {"intent"},
          swallowed |-> {}, cached |-> FALSE, query |-> <<>>,
          targets |-> <<>>]
    ELSE retrieve_associate(
            kg_enhancement(cached_result.cache, request[1], u.intent_ran,
                           u.confidence, kg),
            request, u, quality, assoc, down)

\* a medical_retrieve that caches the error diagnostic of a failed intent
\* recognition
retrieve_lookup_caches_error(cached_result, request, u, intent, quality, kg, assoc, down) ==
    IF cached_result.found
    THEN [ret |-> cached_result.value, cache |-> cached_result.cache,
          stores |-> vector_stores, invoked |-> {}, swallowed |-> {},
          cached |-> FALSE, query |-> <<>>,
          targets |-> <<>>]
    ELSE IF u.intent_ran /\ intent.fails
    THEN [ret |-> ErrorResult,
          cache |-> cache_set(cached_result.cache, "query_result",
                              retrieval_cache_key(request), ErrorResult, ResultTtl),
          stores |-> vector_stores, invoked |-> {"intent"},
          swallowed |-> {}, cached |-> TRUE, query |-> <<>>,
          targets |-> <<>>]
    ELSE retrieve_associate(
            IF quality >= quality_threshold
            THEN kg_enhancement(cached_result.cache, request[1], u.intent_ran,
                                u.confidence, kg)
            ELSE KgDisabled(cached_result.cache, {}),
            request, u, quality, assoc, down)

\* medical_retrieve from the get of the cached result: cached_result is what
\* it returned
retrieve_lookup(cached_result, request, u, intent, quality, kg, assoc, down) ==
    IF cached_result.found
    THEN [ret |-> cached_result.value, cache |-> cached_result.cache,
          stores |-> vector_stores, invoked |-> {}, swallowed |-> {},
          cached |-> FALSE, query |-> <<>>,
          targets |-> <<>>]
    ELSE IF u.intent_ran /\ intent.fails
    THEN [ret |-> ErrorResult, cache |-> cached_result.cache,
          stores |-> vector_stores, invoked |-> {"intent"},
          swallowed |-> {}, cached |-> FALSE, query |-> <<>>,
          targets |-> <<>>]
    ELSE retrieve_associate(
            IF quality >= quality_threshold
            THEN kg_enhancement(cached_result.cache, request[1], u.intent_ran,
                                u.confidence, kg)
            ELSE KgDisabled(cached_result.cache, {}),
            request, u, quality, assoc, down)

\* medical_retrieve(question, department, document_type, disease_category):
\* what it returns and the state it leaves. request is the question and the
\* three filters; intent, quality, kg and assoc are what the collaborators
\* would answer if asked; down are the stores for which the embedding of the
\* query raises.
medical_retrieve(request, intent, quality, kg, assoc, down) ==
    retrieve_lookup(cache_get(cache, "query_result", retrieval_cache_key(request)),
                    request, understood(request, intent), intent, quality, kg,
                    assoc, down)

(***************************************************************************)
(* The retrieval pipeline as a state machine: documents are indexed,       *)
(* indexes deleted, questions retrieved, and time passes.                  *)
(***************************************************************************)
\* the request: a question without filters
RetrieveRequests == {<<"q", None, None, None>>}

\* what intent recognition answers: it raises, it recognises nothing, or it
\* recognises department A with confidence 0.9
IntentOutcomes ==
    {[fails |-> TRUE, department |-> None, document_type |-> None,
      disease_category |-> None, confidence |-> 0],
     [fails |-> FALSE, department |-> None, document_type |-> None,
      disease_category |-> None, confidence |-> 0],
     [fails |-> FALSE, department |-> "A", document_type |-> None,
      disease_category |-> None, confidence |-> 90]}

\* the overall_score of the quality assessor: low, high
QualityScores == {40, 90}

\* what the knowledge graph answers
KgOutcomes ==
    {[fails |-> TRUE, entities |-> <<>>, suggestions |-> <<>>, relations |-> <<>>],
     [fails |-> FALSE, entities |-> <<>>, suggestions |-> <<>>, relations |-> <<>>],
     [fails |-> FALSE, entities |-> <<"e1">>, suggestions |-> <<"s1">>,
      relations |-> <<"r1">>]}

\* what the association service answers
AssocOutcomes ==
    {[fails |-> TRUE, associations |-> <<>>],
     [fails |-> FALSE, associations |-> <<"a1">>]}

\* a collaborator that is not asked answers nothing
Unasked(S, asked, nothing) == IF asked THEN S ELSE {nothing}

NoIntent ==
    [fails |-> TRUE, department |-> None, document_type |-> None,
     disease_category |-> None, confidence |-> 0]

NoKg == [fails |-> TRUE, entities |-> <<>>, suggestions |-> <<>>, relations |-> <<>>]

NoAssoc == [fails |-> TRUE, associations |-> <<>>]

\* the documents indexed: the chunks of each, and its partition
Indexings ==
    {<<<<"c2", "c3">>, <<"A", "X", "Y">>>>, <<<<"c3">>, <<"B", "X", None>>>>}

\* the clock advances past the ttl of a result, until an enhancement cached
\* at the start has expired
RetrieveTickSteps == {ResultTtl + 1}

RetrieveTick(d) ==
    /\ now < EnhancementTtl
    /\ now' = now + d
    /\ robs' = [NoRobs EXCEPT !.op = "tick"]
    /\ UNCHANGED <<max_size, cache, obs, lastSet, stale, preAdd>>
    /\ UNCHANGED <<storeVars, callVars, backVars>>

\* the entry a get of the retrieval key would find and return: stored and
\* no older than its ttl
FreshEntries(request) ==
    {i \in 1..Len(cache) :
        /\ cache[i].key = generate_key("query_result", retrieval_cache_key(request))
        /\ now - cache[i].timestamp <= cache[i].ttl}

\* EnhancedMedicalRAGService.medical_retrieve
Retrieve(request, intent, quality, kg, assoc, down) ==
    \E r \in {medical_retrieve(request, intent, quality, kg, assoc, down)} :
        /\ \A i \in 1..Len(r.cache) : r.cache[i].access_count <= MaxAccess
        /\ cache' = r.cache
        /\ vector_stores' = r.stores
        /\ robs' = [op |-> "retrieve", request |-> request,
                    fresh |-> FreshEntries(request) # {},
                    was_stale |-> generate_key("query_result",
                                      retrieval_cache_key(request)) \in stale,
                    stored |-> IF FreshEntries(request) # {}
                               THEN cache[CHOOSE i \in FreshEntries(request) : TRUE].data
                               ELSE NoResult,
                    ret |-> r.ret, invoked |-> r.invoked,
                    swallowed |-> r.swallowed,
                    quality |-> IF "quality" \in r.invoked THEN quality ELSE 0,
                    query |-> r.query, targets |-> r.targets]
        /\ stale' = IF r.cached
                    THEN stale \ {generate_key("query_result",
                                               retrieval_cache_key(request))}
                    ELSE stale
        /\ preAdd' = IF r.cached
                     THEN {e \in preAdd :
                             e[2] # generate_key("query_result",
                                                 retrieval_cache_key(request))}
                     ELSE preAdd
        /\ UNCHANGED <<now, max_size, obs, lastSet>>
        /\ UNCHANGED <<metadata_cache, disk, sobs, addSum>>
        /\ UNCHANGED <<callVars, backVars>>

\* EnhancedMedicalIndexService.process_and_index_document, from the chunks
\* the preprocessor made of the document; a document is indexed while its
\* partition is absent
ProcessAndIndex(documents, p) ==
    \E store_key \in {get_store_key(p[1], p[2], p[3])},
       r \in {add_documents(documents, p[1], p[2], p[3], "none")} :
        /\ store_key \notin MetaKeys(metadata_cache)
        /\ vector_stores' = r.stores
        /\ metadata_cache' = r.meta
        /\ disk' = r.dk
        /\ addSum' = [addSum EXCEPT ![store_key].sum = @ + Len(documents)]
        /\ robs' = [NoRobs EXCEPT !.op = "index"]
        /\ preAdd' = IF r.ok
                     THEN preAdd \cup
                            {<<store_key, k>> : k \in
                                {c \in Keys(cache) : KeyHasPrefix(c, "query_result")}}
                     ELSE preAdd
        /\ UNCHANGED <<sobs, stale>>
        /\ UNCHANGED <<cacheVars, callVars, backVars>>

\* invalidations that leave the retrieval results in the cache
invalidate_for_delete_keeps_results(cache_dict) ==
    memory_invalidate(
        memory_invalidate(cache_dict, "medical_association", None),
        "kg_expansion", None)

\* the invalidations of delete_document_index after a successful delete
invalidate_for_delete(cache_dict) ==
    memory_invalidate(
        memory_invalidate(
            memory_invalidate(cache_dict, "query_result", None),
            "medical_association", None),
        "kg_expansion", None)

\* EnhancedMedicalIndexService.delete_document_index; fail: rmtree raises
DeleteDocumentIndex(p, fail) ==
    \E store_key \in {get_store_key(p[1], p[2], p[3])},
       r \in {delete_store(p[1], p[2], p[3], fail)} :
        /\ vector_stores' = r.stores
        /\ metadata_cache' = r.meta
        /\ disk' = r.dk
        /\ addSum' = [addSum EXCEPT ![store_key] =
                        IF r.ok THEN NoAdds ELSE [@ EXCEPT !.clean = FALSE]]
        /\ cache' = IF r.ok THEN invalidate_for_delete(cache) ELSE cache
        /\ stale' = IF r.ok
                    THEN stale \cup {k \in Keys(cache) : KeyHasPrefix(k, "query_result")}
                    ELSE stale
        /\ preAdd' = {e \in preAdd : e[2] \in Keys(cache')}
        /\ robs' = [NoRobs EXCEPT !.op = "delete_index",
                                  !.ret = [NoResult EXCEPT !.error = ~r.ok]]
        /\ UNCHANGED <<now, max_size, obs, lastSet, sobs>>
        /\ UNCHANGED <<callVars, backVars>>

InitRetrieve == StoreIdle /\ CacheIdle

\* one retrieval, each collaborator answering from the given outcomes when
\* the pipeline asks it
RetrieveAny(request, intents, qualities, kgs, assocs, downs) ==
    \E quality \in Unasked(qualities, FreshEntries(request) = {}, 0) :
        \E intent \in Unasked(intents, FreshEntries(request) = {} /\ request[2] = None,
                              NoIntent),
           kg \in Unasked(kgs, quality >= quality_threshold, NoKg),
           assoc \in Unasked(assocs, quality >= quality_threshold, NoAssoc),
           down \in Unasked(downs, FreshEntries(request) = {}, {}) :
            Retrieve(request, intent, quality, kg, assoc, down)

NextRetrieve ==
    \/ \E d \in Indexings : ProcessAndIndex(d[1], d[2])
    \/ \E p \in LifecyclePartitions : DeleteDocumentIndex(p, FALSE)
    \/ \E request \in RetrieveRequests :
          RetrieveAny(request, IntentOutcomes, QualityScores, KgOutcomes,
                      AssocOutcomes, DownSets)
    \/ \E d \in RetrieveTickSteps : RetrieveTick(d)

SpecRetrieve == InitRetrieve /\ [][NextRetrieve]_vars

\* the collaborators of a system in good order: intent recognition, the
\* knowledge graph, the association service and the embedding service
\* answer
HealthyIntents == {o \in IntentOutcomes : ~o.fails}

HealthyKgs == {o \in KgOutcomes : ~o.fails}

HealthyAssocs == {o \in AssocOutcomes : ~o.fails}

NextResultCache ==
    \/ \E d \in Indexings : ProcessAndIndex(d[1], d[2])
    \/ \E p \in LifecyclePartitions : DeleteDocumentIndex(p, FALSE)
    \/ \E request \in RetrieveRequests :
          RetrieveAny(request, HealthyIntents, QualityScores, HealthyKgs,
                      HealthyAssocs, {{}})
    \/ \E d \in RetrieveTickSteps : RetrieveTick(d)

SpecResultCache == InitRetrieve /\ [][NextResultCache]_vars

(***************************************************************************)
(* Claims on the retrieval pipeline.                                       *)
(***************************************************************************)
\* every citation names a partition the manager has, and a chunk of it
CitesOnlyPartitionsPresent(citations) ==
    \A i \in 1..Len(citations) :
        /\ citations[i].store_key \in MetaKeys(metadata_cache)
        /\ \E j \in 1..Len(IndexOfKey(citations[i].store_key)) :
              IndexOfKey(citations[i].store_key)[j] = citations[i].chunk

SameSignals(ret, a, b) ==
    /\ medical_score(a.chunk) = medical_score(b.chunk)
    /\ kg_score(a.chunk, ret.enabled, ret.suggestions)
          = kg_score(b.chunk, ret.enabled, ret.suggestions)
    /\ association_score(a.chunk, ret.associations)
          = association_score(b.chunk, ret.associations)

\* C6: in the ranking medical_retrieve returns, of two results with equal
\* medical relevance, KG and association signals the one at the smaller
\* distance never ranks below the other.
C6_CloserNeverRanksBelow ==
    robs.op = "retrieve" =>
        \A i, j \in 1..Len(robs.ret.citations) :
            (/\ i < j
             /\ SameSignals(robs.ret, robs.ret.citations[i], robs.ret.citations[j]))
                => robs.ret.citations[i].score <= robs.ret.citations[j].score

\* C7: a retrieval whose key holds a stored result that has not expired,
\* been evicted or been invalidated returns exactly the stored result and
\* asks neither the quality assessor, the knowledge graph, the association
\* service, the router nor the re-ranking.
C7_HitReturnsStored ==
    (robs.op = "retrieve" /\ robs.fresh) =>
        /\ robs.ret = robs.stored
        /\ robs.invoked = {}

\* a retrieval served a stored ranking of chunks
C7_Witness ==
    /\ robs.op = "retrieve"
    /\ robs.fresh
    /\ robs.stored.citations # <<>>
    /\ robs.ret.citations # <<>>

\* C9: when the embedding of the query raises during the search of a
\* retrieval, the retrieval returns an error, never a successful result.
C9_EmbeddingFailureSurfaces ==
    (robs.op = "retrieve" /\ robs.swallowed # {}) => robs.ret.error

\* C16: in a retrieval that misses the result cache, the knowledge graph and
\* the association service are asked only if the assessed quality is at
\* least 0.6; below 0.6 neither is asked, the query the search receives is
\* the question alone, and the diagnostics say kg_enhancement.enabled = false.
C16_EnhancementGatedByQuality ==
    (robs.op = "retrieve" /\ "quality" \in robs.invoked) =>
        /\ robs.invoked \cap {"kg", "assoc"} # {} => robs.quality >= 60
        /\ robs.quality < 60 =>
              /\ robs.invoked \cap {"kg", "assoc"} = {}
              /\ "router" \in robs.invoked
              /\ robs.query = <<robs.request[1]>>
              /\ ~robs.ret.enabled

\* a retrieval of quality 0.4 that went to the search and returned citations
C16_Witness ==
    /\ robs.op = "retrieve"
    /\ "quality" \in robs.invoked /\ robs.quality = 40
    /\ "router" \in robs.invoked
    /\ robs.ret.citations # <<>>

\* a retrieval of quality 0.9 whose query went out with a suggestion appended
C16_Witness_Enhanced ==
    /\ robs.op = "retrieve"
    /\ robs.quality = 90 /\ robs.invoked \cap {"kg", "assoc"} # {}
    /\ Len(robs.query) > 1

(***************************************************************************)
(* The dynamic weights over the inputs medical_retrieve can hand to         *)
(* calculate_dynamic_weights.                                              *)
(***************************************************************************)
\* overall_score of the assessed quality, in hundredths
WeightQualities == 0..100

\* the confidence of the recognised intent: none, at and above the 0.8 the
\* weights turn on
WeightConfidences == {0, 80, 81}

\* len(medical_associations): none, at and above the 3 the weights turn on
AssociationCounts == {0, 3, 4}

\* the inputs the pipeline reaches: suggestions and associations are there
\* only where use_enhanced_kg was True, that is with a quality of 0.6 and more
ReachableWeightInputs ==
    {i \in WeightQualities \X WeightConfidences \X BOOLEAN \X AssociationCounts :
        i[1] < quality_threshold => (~i[3] /\ i[4] = 0)}

\* medical_retrieve from the call of calculate_dynamic_weights to the weights
\* it puts in the diagnostics
Weigh(quality, confidence, kg_enhancement_used, associations_count) ==
    /\ robs' = [NoRobs EXCEPT
                  !.op = "weights",
                  !.request = <<quality, confidence, kg_enhancement_used,
                                associations_count>>,
                  !.ret = [NoResult EXCEPT !.weights =
                             normalized_weights(
                                calculate_dynamic_weights(quality, confidence,
                                    kg_enhancement_used, associations_count))]]
    /\ UNCHANGED <<cacheVars, storeVars, stale, preAdd, callVars, backVars>>

NextWeights == \E i \in ReachableWeightInputs : Weigh(i[1], i[2], i[3], i[4])

SpecWeights == InitRetrieve /\ [][NextWeights]_vars

\* the weights of a vector of fractions sum to 1
SumsToOne(w) ==
    LET s == w.semantic_similarity
        m == w.medical_relevance
        k == w.kg_enhancement
        a == w.medical_associations
    IN  s.num * m.den * k.den * a.den + m.num * s.den * k.den * a.den
            + k.num * s.den * m.den * a.den + a.num * s.den * m.den * k.den
        = s.den * m.den * k.den * a.den

\* C17: for every quality, intent confidence, KG flag and association count
\* the pipeline can reach, the final weight vector has four components, each
\* non-negative, that sum to 1.
C17_WeightsConvex ==
    robs.op = "weights" =>
        /\ DOMAIN robs.ret.weights = {"semantic_similarity", "medical_relevance",
                                      "kg_enhancement", "medical_associations"}
        /\ \A key \in DOMAIN robs.ret.weights :
              /\ robs.ret.weights[key].den > 0
              /\ robs.ret.weights[key].num >= 0
        /\ SumsToOne(robs.ret.weights)

\* weights made for a confident intent on a query with suggestions and more
\* than three associations: every adjustment but that of the quality applies
C17_Witness ==
    /\ robs.op = "weights"
    /\ robs.request[1] = 70 /\ robs.request[2] = 81
    /\ robs.request[3] /\ robs.request[4] = 4
    /\ robs.ret.weights.semantic_similarity.num = 20

(***************************************************************************)
(* The manager under concurrent callers: two threads of one process call   *)
(* add_documents and search_documents of the one MedicalVectorStoreManager. *)
(* A thread runs add_documents statement by statement; the manager holds   *)
(* no lock, so the statements of the two threads interleave freely.        *)
(***************************************************************************)
\* the store key of the call a thread is in
KeyOf(frame) == get_store_key(frame.p[1], frame.p[2], frame.p[3])

\* the other threads that are in a call on the same key
Others(t) ==
    {u \in Callers \ {t} :
        callers[u].pc # "idle" /\ KeyOf(callers[u]) = KeyOf(callers[t])}

\* add_documents up to `vector_store = self._load_vector_store(store_key)`
AddLoad(t, documents, p) ==
    \E r \in {load_vector_store(vector_stores, disk, get_store_key(p[1], p[2], p[3]))} :
        /\ callers[t].pc = "idle"
        /\ calls < MaxCalls
        /\ documents # <<>>
        /\ calls' = calls + 1
        /\ vector_stores' = r.stores
        /\ callers' = [callers EXCEPT ![t] =
                [Outside EXCEPT !.pc = "mutate", !.p = p, !.documents = documents,
                                !.ref = IF r.found THEN "resident" ELSE "none"]]
        /\ UNCHANGED <<metadata_cache, disk, sobs, addSum, cobs>>
        /\ UNCHANGED <<cacheVars, pipeVars, backVars>>

\* add_documents: FAISS.from_documents and the assignment to vector_stores
\* where the load returned None (the object another thread holds is then no
\* longer the one in vector_stores), vector_store.add_documents otherwise
AddMutate(t) ==
    \E frame \in {callers[t]} :
        /\ frame.pc = "mutate"
        /\ vector_stores' =
              IF frame.ref = "none"
              THEN Put(vector_stores, KeyOf(frame), frame.documents)
              ELSE IF frame.ref = "resident"
              THEN [vector_stores EXCEPT ![KeyOf(frame)] = @ \o frame.documents]
              ELSE vector_stores
        /\ callers' = [u \in Callers |->
              IF u = t
              THEN [frame EXCEPT !.pc = "save",
                                 !.ref = IF @ = "none" THEN "resident" ELSE @,
                                 !.obj = IF frame.ref = "own"
                                         THEN @ \o frame.documents ELSE @]
              ELSE IF frame.ref = "none" /\ u \in Others(t)
                      /\ callers[u].ref = "resident"
              THEN [callers[u] EXCEPT !.ref = "own",
                                      !.obj = vector_stores[KeyOf(frame)]]
              ELSE callers[u]]
        /\ UNCHANGED <<metadata_cache, disk, sobs, addSum, calls, cobs>>
        /\ UNCHANGED <<cacheVars, pipeVars, backVars>>

\* add_documents: vector_store.save_local(store_path)
AddSave(t) ==
    \E frame \in {callers[t]} :
        /\ frame.pc = "save"
        /\ disk' = [disk EXCEPT ![KeyOf(frame)] =
              [@ EXCEPT !.dir = TRUE, !.has_index = TRUE,
                        !.index = IF frame.ref = "own" THEN frame.obj
                                  ELSE vector_stores[KeyOf(frame)]]]
        /\ callers' = [callers EXCEPT ![t].pc = "meta"]
        /\ UNCHANGED <<metadata_cache, vector_stores, sobs, addSum, calls, cobs>>
        /\ UNCHANGED <<cacheVars, pipeVars, backVars>>

\* add_documents: `if store_key in self.metadata_cache` and, where it is,
\* the read of metadata.document_count for `+=`
AddMetaRead(t) ==
    \E frame \in {callers[t]} :
        /\ frame.pc = "meta"
        /\ callers' = [callers EXCEPT ![t] =
              IF KeyOf(frame) \in MetaKeys(metadata_cache)
              THEN [frame EXCEPT !.pc = "metawrite", !.mref = "resident",
                        !.count = MetaOf(metadata_cache, KeyOf(frame)).document_count]
              ELSE [frame EXCEPT !.pc = "metawrite", !.mref = "none"]]
        /\ UNCHANGED <<metadata_cache, vector_stores, disk, sobs, addSum, calls, cobs>>
        /\ UNCHANGED <<cacheVars, pipeVars, backVars>>

\* metadata_cache[store_key] = metadata: an existing key keeps its place
PutMetadata(mc, store_key, metadata) ==
    IF store_key \in MetaKeys(mc)
    THEN [mc EXCEPT ![MetaIndex(mc, store_key)] = metadata]
    ELSE Append(mc, metadata)

\* add_documents: the write of metadata.document_count that ends `+=`, or
\* the assignment of a new VectorStoreMetadata to metadata_cache (the object
\* another thread holds is then no longer the one in metadata_cache)
AddMetaWrite(t) ==
    \E frame \in {callers[t]} :
        /\ frame.pc = "metawrite"
        /\ metadata_cache' =
              IF frame.mref = "none"
              THEN PutMetadata(metadata_cache, KeyOf(frame),
                       VectorStoreMetadata(KeyOf(frame), frame.p[1], frame.p[2],
                                           frame.p[3], Len(frame.documents)))
              ELSE IF frame.mref = "resident"
              THEN [metadata_cache EXCEPT
                       ![MetaIndex(metadata_cache, KeyOf(frame))].document_count =
                           frame.count + Len(frame.documents)]
              ELSE metadata_cache
        /\ callers' = [u \in Callers |->
              IF u = t
              THEN [frame EXCEPT !.pc = "dump",
                        !.mref = IF @ = "none" THEN "resident" ELSE @,
                        !.count = IF frame.mref = "none" THEN Len(frame.documents)
                                  ELSE @ + Len(frame.documents)]
              ELSE IF frame.mref = "none" /\ u \in Others(t)
                      /\ callers[u].mref = "resident"
                      /\ callers[u].pc \in {"metawrite", "dump"}
              THEN [callers[u] EXCEPT !.mref = "own",
                        !.count = IF callers[u].pc = "metawrite" THEN @
                                  ELSE MetaOf(metadata_cache,
                                              KeyOf(frame)).document_count]
              ELSE callers[u]]
        /\ UNCHANGED <<vector_stores, disk, sobs, addSum, calls>>
        /\ UNCHANGED cobs
        /\ UNCHANGED <<cacheVars, pipeVars, backVars>>

\* add_documents: json.dump of asdict(metadata) to metadata.json, and
\* `return True`
AddDump(t) ==
    \E frame \in {callers[t]} :
        /\ frame.pc = "dump"
        /\ disk' = [disk EXCEPT ![KeyOf(frame)] =
              [@ EXCEPT !.has_meta = TRUE,
                        !.meta = IF frame.mref = "own"
                                 THEN VectorStoreMetadata(KeyOf(frame), frame.p[1],
                                          frame.p[2], frame.p[3], frame.count)
                                 ELSE MetaOf(metadata_cache, KeyOf(frame))]]
        /\ addSum' = [addSum EXCEPT ![KeyOf(frame)].sum = @ + Len(frame.documents)]
        /\ callers' = [callers EXCEPT ![t] = Outside]
        /\ cobs' = [NoCobs EXCEPT !.op = "add", !.caller = t, !.key = KeyOf(frame)]
        /\ UNCHANGED <<metadata_cache, vector_stores, sobs, calls>>
        /\ UNCHANGED <<cacheVars, pipeVars, backVars>>

\* the keys whose resident index holds the chunks of an add_documents that
\* has not saved it yet
Unsaved ==
    {KeyOf(callers[u]) : u \in {v \in Callers :
        callers[v].pc = "save" /\ callers[v].ref = "resident"}}

\* search_documents for the partition p, by a thread that is in no call
ConcurrentSearch(t, query, k, p) ==
    \E r \in {search_documents(query, k, p[1], p[2], p[3],
                                DefaultScoreThreshold, {})} :
        /\ callers[t].pc = "idle"
        /\ calls < MaxCalls
        /\ calls' = calls + 1
        /\ vector_stores' = r.stores
        /\ cobs' = [NoCobs EXCEPT !.op = "search", !.caller = t,
                                  !.key = get_store_key(p[1], p[2], p[3]),
                                  !.read = r.returned, !.unsaved = Unsaved]
        /\ UNCHANGED <<metadata_cache, disk, sobs, addSum, callers>>
        /\ UNCHANGED <<cacheVars, pipeVars, backVars>>

\* the documents the threads add
ConcurrentBatches == {<<"c1">>, <<"c2", "c3">>}

InitConcurrent == StoreIdle /\ CacheIdle

NextConcurrent ==
    \/ \E t \in Callers, documents \in ConcurrentBatches,
          p \in LifecyclePartitions : AddLoad(t, documents, p)
    \/ \E t \in Callers : AddMutate(t)
    \/ \E t \in Callers : AddSave(t)
    \/ \E t \in Callers : AddMetaRead(t)
    \/ \E t \in Callers : AddMetaWrite(t)
    \/ \E t \in Callers : AddDump(t)
    \/ \E t \in Callers, query \in Queries, k \in SearchLimits,
          p \in LifecyclePartitions : ConcurrentSearch(t, query, k, p)

SpecConcurrent == InitConcurrent /\ [][NextConcurrent]_vars

(***************************************************************************)
(* Claims on the manager under concurrent callers.                         *)
(***************************************************************************)
\* when no add is in progress, the document_count of every key is the sum
\* of the sizes of the adds that returned True for it
NoLostUpdate ==
    (\A t \in Callers : callers[t].pc = "idle") =>
        \A key \in StoreKeys : addSum[key].sum > 0 =>
            /\ key \in MetaKeys(metadata_cache)
            /\ MetaOf(metadata_cache, key).document_count = addSum[key].sum

\* no search returns chunks of an index that an add has mutated and not
\* saved yet
NoSearchDuringAdd == cobs.op = "search" => cobs.read \cap cobs.unsaved = {}

\* C8: concurrent add and search on one key exclude each other: concurrent
\* adds of n1 and n2 chunks to a key leave its document_count increased by
\* n1 + n2, and no search reads the index of a key while an add is part-way
\* through mutating or persisting it.
C8_SerializedPerKey == NoLostUpdate /\ NoSearchDuringAdd

(***************************************************************************)
(* The cache behind its interface: CacheService over its in-memory         *)
(* implementation or over RedisCacheAdapter                                *)
(* (services/redis_cache_adapter.py), whose synchronous get, set and       *)
(* invalidate run a coroutine against Redis, or leave it as a task on the  *)
(* running event loop, and always work on the local memory cache as well.  *)
(* The adapter's keys carry the prefix "cache:" throughout, left out here. *)
(***************************************************************************)
\* the coroutines one adapter may have pending on the event loop
MaxTasks == 1
\* the number of clock advances in a behaviour of SpecBackend
BackendTicks == 1

\* the entry as _redis_set and _redis_get write it at time t: ex = entry.ttl
RedisEntry(entry, t) ==
    [present |-> TRUE, data |-> entry.data, timestamp |-> entry.timestamp,
     ttl |-> entry.ttl, access_count |-> entry.access_count, written |-> t]

\* the keys Redis still holds at time t: one written with ex = ttl is gone
\* ttl seconds after the write
RedisLive(rds, t) ==
    [k \in DOMAIN rds |->
        IF rds[k].present /\ t - rds[k].written < rds[k].ttl THEN rds[k]
        ELSE Absent]

\* the try block of _redis_get with Redis answering
redis_get_body(rds, key, t) ==
    IF ~rds[key].present THEN [hit |-> FALSE, data |-> None, redis |-> rds]
    ELSE IF is_expired(rds[key], t)
    THEN [hit |-> FALSE, data |-> None, redis |-> [rds EXCEPT ![key] = Absent]]
    ELSE [hit |-> TRUE, data |-> rds[key].data,
          redis |-> [rds EXCEPT ![key] = RedisEntry(access(@), t)]]

\* _redis_get: None where a Redis operation raises (up = FALSE)
redis_get(rds, key, up, t) ==
    IF up THEN redis_get_body(rds, key, t)
    ELSE [hit |-> FALSE, data |-> None, redis |-> rds]

\* _redis_set: the keys Redis holds afterwards
redis_set(rds, entry, up, t) ==
    IF up THEN [rds EXCEPT ![entry.key] = RedisEntry(entry, t)] ELSE rds

\* _redis_delete
redis_delete(rds, key, up) ==
    IF up THEN [rds EXCEPT ![key] = Absent] ELSE rds

\* _sync_get_fallback: the value it returns
sync_get_fallback_value(cache_dict, cache_type, key_data, t) ==
    memory_get_value(cache_dict, cache_type, key_data, t)

\* _sync_get_fallback: the memory cache it leaves
sync_get_fallback_cache(cache_dict, cache_type, key_data, t) ==
    memory_get_cache(cache_dict, cache_type, key_data, t)

\* _sync_set_fallback
sync_set_fallback(cache_dict, size, cache_type, key_data, value, ttl, t) ==
    memory_set(cache_dict, size, cache_type, key_data, value, ttl, t)

\* _sync_invalidate_fallback
sync_invalidate_fallback(cache_dict, cache_type, key_data) ==
    memory_invalidate(cache_dict, cache_type, key_data)

\* where a get found its value
Served(value, place) == IF value = None THEN "none" ELSE place

\* the rest of _async_get given what _redis_get found
async_get_after(cache_dict, found, cache_type, key_data, t) ==
    IF found.hit
    THEN [ret |-> found.data, from |-> "redis", cache |-> cache_dict,
          redis |-> found.redis]
    ELSE [ret |-> sync_get_fallback_value(cache_dict, cache_type, key_data, t),
          from |-> Served(sync_get_fallback_value(cache_dict, cache_type,
                                                  key_data, t), "memory"),
          cache |-> sync_get_fallback_cache(cache_dict, cache_type, key_data, t),
          redis |-> found.redis]

\* _async_get
async_get(cache_dict, rds, cache_type, key_data, up, t) ==
    async_get_after(cache_dict,
                    redis_get(rds, generate_key(cache_type, key_data), up, t),
                    cache_type, key_data, t)

\* _async_set: the entry is made when the coroutine runs
async_set(rds, cache_type, key_data, value, ttl, up, t) ==
    redis_set(rds, CacheEntry(generate_key(cache_type, key_data), value, t,
                              EffectiveTtl(cache_type, ttl)), up, t)

\* _async_invalidate: the keys matching cache:<cache_type>:* or the one key
async_invalidate(rds, cache_type, key_data, up) ==
    IF key_data = None
    THEN IF up
         THEN [k \in DOMAIN rds |->
                 IF KeyHasPrefix(k, cache_type) THEN Absent ELSE rds[k]]
         ELSE rds
    ELSE redis_delete(rds, generate_key(cache_type, key_data), up)

\* a coroutine left on the event loop, and whether the call that left it
\* was a get served from the memory cache
Task(op, cache_type, key_data, value, ttl, hit) ==
    [op |-> op, cache_type |-> cache_type, key_data |-> key_data,
     value |-> value, ttl |-> ttl, hit |-> hit]

\* the event loop as the caller of the adapter finds it: running (the call
\* is made from a coroutine), idle, or none (get_event_loop raises in a
\* thread that has no loop)
LoopStates == {"running", "idle", "none"}

\* RedisCacheAdapter.get: what it returns, from where, what it leaves, the
\* task it creates, and whether it raises: the try block is left by an
\* exception to the memory fallback
adapter_get(cache_dict, rds, loop, cache_type, key_data, up, t) ==
    IF loop = "idle"
    THEN async_get(cache_dict, rds, cache_type, key_data, up, t)
            @@ [task |-> <<>>, raised |-> FALSE]
    ELSE [ret |-> sync_get_fallback_value(cache_dict, cache_type, key_data, t),
          from |-> Served(sync_get_fallback_value(cache_dict, cache_type,
                                                  key_data, t), "memory"),
          cache |-> sync_get_fallback_cache(cache_dict, cache_type, key_data, t),
          redis |-> rds,
          task |-> IF loop = "running"
                   THEN <<Task("get", cache_type, key_data, None, 0,
                               sync_get_fallback_value(cache_dict, cache_type,
                                                       key_data, t) # None)>>
                   ELSE <<>>,
          raised |-> FALSE]

\* a set that leaves the memory cache alone once it has a loop to write to
\* Redis with
adapter_set_redis_only(cache_dict, rds, size, loop, cache_type, key_data, value, ttl, up, t) ==
    [cache |-> IF loop = "none"
               THEN sync_set_fallback(cache_dict, size, cache_type, key_data,
                                      value, ttl, t)
               ELSE cache_dict,
     redis |-> IF loop = "idle"
               THEN async_set(rds, cache_type, key_data, value, ttl, up, t)
               ELSE rds,
     task |-> IF loop = "running"
              THEN <<Task("set", cache_type, key_data, value, ttl, FALSE)>>
              ELSE <<>>,
     raised |-> FALSE]

\* RedisCacheAdapter.set: the try block, whose exception is passed over,
\* and then _sync_set_fallback
adapter_set(cache_dict, rds, size, loop, cache_type, key_data, value, ttl, up, t) ==
    [cache |-> sync_set_fallback(cache_dict, size, cache_type, key_data,
                                 value, ttl, t),
     redis |-> IF loop = "idle"
               THEN async_set(rds, cache_type, key_data, value, ttl, up, t)
               ELSE rds,
     task |-> IF loop = "running"
              THEN <<Task("set", cache_type, key_data, value, ttl, FALSE)>>
              ELSE <<>>,
     raised |-> FALSE]

\* RedisCacheAdapter.invalidate
adapter_invalidate(cache_dict, rds, loop, cache_type, key_data, up) ==
    [cache |-> sync_invalidate_fallback(cache_dict, cache_type, key_data),
     redis |-> IF loop = "idle"
               THEN async_invalidate(rds, cache_type, key_data, up)
               ELSE rds,
     task |-> IF loop = "running"
              THEN <<Task("invalidate", cache_type, key_data, None, 0, FALSE)>>
              ELSE <<>>,
     raised |-> FALSE]

(***************************************************************************)
(* The cache interface as a state machine.                                 *)
(***************************************************************************)
\* the value a set of this machine writes
BackendValues == {"v1"}

\* the ttl a set of this machine is given
BackendTtls == {60}

\* the step of the clock: past the ttl of a set
BackendTickSteps == {61}

\* CacheService.__init__(max_size, use_redis)
Construct(size, use_redis) ==
    /\ now = 0 /\ cache = <<>> /\ bobs = NoBobs /\ impl = "memory"
    /\ max_size' = size
    /\ impl' = IF use_redis THEN "redis" ELSE "memory"
    /\ bobs' = [NoBobs EXCEPT !.op = "construct"]
    /\ UNCHANGED <<now, cache, obs, lastSet, redis, tasks>>
    /\ UNCHANGED <<storeVars, pipeVars, callVars>>

BackendTick(d) ==
    /\ bobs.op # "none"
    /\ now \div d < BackendTicks
    /\ now' = now + d
    /\ redis' = RedisLive(redis, now + d)
    /\ bobs' = [NoBobs EXCEPT !.op = "tick"]
    /\ UNCHANGED <<max_size, cache, obs, lastSet, impl, tasks>>
    /\ UNCHANGED <<storeVars, pipeVars, callVars>>

\* CacheService.get(cache_type, key_data) on the implementation in place
BackendGet(loop, up, cache_type, key_data) ==
    /\ bobs.op # "none"
    /\ impl = "redis" /\ loop = "running" => Len(tasks) < MaxTasks
    /\ \E r \in {IF impl = "redis"
                 THEN adapter_get(cache, redis, loop, cache_type, key_data, up, now)
                 ELSE [ret |-> memory_get_value(cache, cache_type, key_data, now),
                       from |-> Served(memory_get_value(cache, cache_type,
                                                        key_data, now), "memory"),
                       cache |-> memory_get_cache(cache, cache_type, key_data, now),
                       redis |-> redis, task |-> <<>>, raised |-> FALSE]} :
          /\ cache' = r.cache
          /\ redis' = r.redis
          /\ tasks' = tasks \o r.task
          /\ bobs' = [NoBobs EXCEPT !.op = "get", !.cache_type = cache_type,
                        !.key_data = key_data, !.ret = r.ret, !.from = r.from,
                        !.raised = r.raised]
    /\ UNCHANGED <<now, max_size, obs, lastSet, impl>>
    /\ UNCHANGED <<storeVars, pipeVars, callVars>>

\* CacheService.set(cache_type, key_data, value, ttl)
BackendSet(loop, up, cache_type, key_data, value, ttl) ==
    /\ bobs.op # "none"
    /\ impl = "redis" /\ loop = "running" => Len(tasks) < MaxTasks
    /\ \E r \in {IF impl = "redis"
                 THEN adapter_set(cache, redis, max_size, loop, cache_type,
                                  key_data, value, ttl, up, now)
                 ELSE [cache |-> memory_set(cache, max_size, cache_type, key_data,
                                            value, ttl, now),
                       redis |-> redis, task |-> <<>>, raised |-> FALSE]} :
          /\ cache' = r.cache
          /\ redis' = r.redis
          /\ tasks' = tasks \o r.task
          /\ bobs' = [NoBobs EXCEPT !.op = "set", !.cache_type = cache_type,
                        !.key_data = key_data, !.raised = r.raised,
                        !.evicted = EvictedKeys(SweptForSet(cache, now), max_size)]
          /\ lastSet' = [k \in BackendKeys |->
                           IF k = generate_key(cache_type, key_data)
                           THEN [isSet |-> TRUE, value |-> value, req |-> ttl,
                                 at |-> now]
                           ELSE IF k \in Keys(cache) \ Keys(r.cache)
                                   /\ k \in EvictedKeys(SweptForSet(cache, now),
                                                        max_size)
                           THEN NeverSet
                           ELSE lastSet[k]]
    /\ UNCHANGED <<now, max_size, obs, impl>>
    /\ UNCHANGED <<storeVars, pipeVars, callVars>>

\* CacheService.invalidate(cache_type, key_data)
BackendInvalidate(loop, up, cache_type, key_data) ==
    /\ bobs.op # "none"
    /\ impl = "redis" /\ loop = "running" => Len(tasks) < MaxTasks
    /\ \E r \in {IF impl = "redis"
                 THEN adapter_invalidate(cache, redis, loop, cache_type,
                                         key_data, up)
                 ELSE [cache |-> memory_invalidate(cache, cache_type, key_data),
                       redis |-> redis, task |-> <<>>, raised |-> FALSE]} :
          /\ cache' = r.cache
          /\ redis' = r.redis
          /\ tasks' = tasks \o r.task
          /\ bobs' = [NoBobs EXCEPT !.op = "invalidate",
                        !.cache_type = cache_type, !.key_data = key_data,
                        !.raised = r.raised,
                        !.removed = Keys(cache) \ Keys(r.cache)]
          /\ lastSet' = [k \in BackendKeys |->
                           IF k \in Keys(cache) \ Keys(r.cache) THEN NeverSet
                           ELSE lastSet[k]]
    /\ UNCHANGED <<now, max_size, obs, impl>>
    /\ UNCHANGED <<storeVars, pipeVars, callVars>>

\* the event loop runs the coroutine at the head of its queue to its end
RunTask(up) ==
    /\ tasks # <<>>
    /\ \E c \in {Head(tasks)} :
          \E r \in {IF c.op = "get"
                    THEN async_get(cache, redis, c.cache_type, c.key_data, up, now)
                    ELSE [ret |-> None, from |-> "none", cache |-> cache,
                          redis |-> IF c.op = "set"
                                    THEN async_set(redis, c.cache_type,
                                                   c.key_data, c.value, c.ttl,
                                                   up, now)
                                    ELSE async_invalidate(redis, c.cache_type,
                                                          c.key_data, up)]} :
             /\ cache' = r.cache
             /\ redis' = r.redis
             /\ bobs' = [NoBobs EXCEPT !.op = "task", !.cache_type = c.cache_type,
                           !.key_data = c.key_data, !.from = r.from]
    /\ tasks' = Tail(tasks)
    /\ UNCHANGED <<now, max_size, obs, lastSet, impl>>
    /\ UNCHANGED <<storeVars, pipeVars, callVars>>

InitBackend ==
    /\ now = 0
    /\ max_size = default_max_size
    /\ cache = <<>>
    /\ obs = NoObs
    /\ lastSet = [k \in BackendKeys |-> NeverSet]
    /\ StoreIdle

\* the contexts a call is made in: the in-memory implementation looks at
\* neither the loop nor Redis, and only a coroutine run within the call
\* (the loop idle) meets Redis before the call returns
Contexts ==
    {c \in LoopStates \X BOOLEAN :
        /\ impl = "memory" => c = <<"none", FALSE>>
        /\ c[1] # "idle" => ~c[2]}

\* the keys the calls are made under: those of the adapter are one of each
\* namespace
RequestsOf(implementation) ==
    IF implementation = "redis"
    THEN {r \in BackendRequests : r[2] = "a"}
    ELSE BackendRequests

NextBackend ==
    \/ \E size \in 1..CacheMaxSize, use_redis \in BOOLEAN : Construct(size, use_redis)
    \/ \E d \in BackendTickSteps : BackendTick(d)
    \/ \E c \in Contexts, r \in RequestsOf(impl) :
          /\ AccessBelow(generate_key(r[1], r[2]), MaxAccess)
          /\ redis[generate_key(r[1], r[2])].access_count < MaxAccess
          /\ BackendGet(c[1], c[2], r[1], r[2])
    \/ \E c \in Contexts, r \in RequestsOf(impl),
          v \in BackendValues, ttl \in BackendTtls :
          BackendSet(c[1], c[2], r[1], r[2], v, ttl)
    \/ \E c \in Contexts, r \in RequestsOf(impl) :
          BackendInvalidate(c[1], c[2], r[1], r[2])
    \/ \E c \in Contexts, ct \in {r[1] : r \in BackendRequests} :
          BackendInvalidate(c[1], c[2], ct, None)
    \/ \E up \in BOOLEAN : RunTask(up)

\* a cache service of either implementation, called from inside and outside
\* the event loop, Redis answering or failing from one coroutine to the next
SpecBackend == InitBackend /\ [][NextBackend]_vars

(***************************************************************************)
(* Claims on the cache behind its interface.                               *)
(***************************************************************************)
\* C12: a cache constructed with max_size >= 1 never stores more than
\* max_size entries, whatever sets, gets and invalidates are made on it.
C12_SizeAtMostMaxSize == Len(cache) <= max_size

\* a set that found the cache at capacity, evicted, and left it full
C12_Witness ==
    /\ bobs.op = "set"
    /\ bobs.evicted # {}
    /\ Len(cache) = max_size

\* C13: invalidate(ns, keyData) removes the entry of (ns, keyData) and no
\* other; invalidate(ns) removes the entries of namespace ns and no entry of
\* another namespace, which a get still hits afterwards.
C13_InvalidateRemovesExactly ==
    [][ bobs'.op = "invalidate" =>
          LET ns == bobs'.cache_type
              gone == IF bobs'.key_data = None
                      THEN {k \in Keys(cache) : k[1] = ns}
                      ELSE {<<ns, bobs'.key_data>>}
          IN  /\ cache' = SelectSeq(cache, LAMBDA e : e.key \notin gone)
              /\ \A i \in 1..Len(cache) :
                    (cache[i].key[1] # ns /\ ~is_expired(cache[i], now))
                    => memory_get_value(cache', cache[i].key[1],
                                        cache[i].key[2], now) = cache[i].data
      ]_vars

\* after invalidate('medical_association') an entry of
\* 'medical_associations' is still stored
C13_Witness ==
    /\ bobs.op = "invalidate"
    /\ bobs.cache_type = "medical_association" /\ bobs.key_data = None
    /\ bobs.removed # {}
    /\ \E i \in 1..Len(cache) : cache[i].key[1] = "medical_associations"

\* the cache after one hit on the entry under key: its access_count is one
\* higher, and its value, timestamp and ttl and every other entry are the same
AfterOneHit(cache_dict, key) ==
    [i \in 1..Len(cache_dict) |->
        IF cache_dict[i].key = key
        THEN [key |-> key, data |-> cache_dict[i].data,
              timestamp |-> cache_dict[i].timestamp, ttl |-> cache_dict[i].ttl,
              access_count |-> cache_dict[i].access_count + 1]
        ELSE cache_dict[i]]

\* C14: a get that hits adds exactly 1 to the access_count of its entry and
\* changes nothing else in the cache: the call leaves the cache as it was
\* but for that count, and the coroutine the call left on the event loop
\* changes the cache no further.
C14_HitAddsOne ==
    [][ /\ (bobs'.op = "get" /\ bobs'.from = "memory")
           => cache' = AfterOneHit(cache, generate_key(bobs'.cache_type,
                                                       bobs'.key_data))
        /\ (bobs'.op = "task" /\ Head(tasks).op = "get" /\ Head(tasks).hit)
           => cache' = cache
      ]_vars

\* the part of C14 the code keeps: the call itself, on either implementation
C14_CallAddsOne ==
    [][ (bobs'.op = "get" /\ bobs'.from = "memory")
        => cache' = AfterOneHit(cache, generate_key(bobs'.cache_type,
                                                    bobs'.key_data))
      ]_vars

\* C15: no call on the adapter raises, and a get served from the memory
\* fallback returns the value last set under its key, while that has not
\* expired and was neither evicted nor invalidated.
C15_FallbackServes ==
    impl = "redis" =>
        /\ ~bobs.raised
        /\ (bobs.op = "get" /\ bobs.from # "redis") =>
              LET s == lastSet[generate_key(bobs.cache_type, bobs.key_data)]
              IN  (s.isSet /\ now - s.at <= EffectiveTtl(bobs.cache_type, s.req))
                  => bobs.ret = s.value

\* a get of the adapter served from memory while Redis holds nothing under
\* the key
C15_Witness ==
    /\ impl = "redis"
    /\ bobs.op = "get" /\ bobs.from = "memory" /\ bobs.ret = "v1"
    /\ ~redis[generate_key(bobs.cache_type, bobs.key_data)].present

(***************************************************************************)
(* The entry points that take the filters as strings:                      *)
(* search_medical_documents of services/enhanced_index_service.py and the  *)
(* module-level medical_retrieve of services/enhanced_rag_service.py.      *)
(***************************************************************************)
\* the strings a caller passes as disease_category: none, the value of
\* MENTAL_DISORDERS, its alias "精神障碍", and a string that is neither a
\* value nor an alias
EntryCategories == {None, MENTAL_DISORDERS, "jingshen zhangai", "unknown"}

EntryDepartments == {"A"}

EntryDocumentTypes == {"X"}

\* the partitions the adds fill, both of department A and document type X,
\* and the chunks of an add
EntryPartitions == {<<"A", "X", "Y">>, <<"A", "X", "Z">>}

EntryBatches == {<<"c1">>, <<"c2", "c3">>}

EntryLimits == {2}

EntryThresholds == {0, 50}

\* the collaborators of the retrievals: intent recognition recognises
\* nothing, the assessor scores 0.9, the knowledge graph and the association
\* service find nothing, the embedding service answers
EntryAnswers ==
    [intent |-> [fails |-> FALSE, department |-> None, document_type |-> None,
                 disease_category |-> None, confidence |-> 0],
     quality |-> 90,
     kg |-> [fails |-> FALSE, entities |-> <<>>, suggestions |-> <<>>,
             relations |-> <<>>],
     assoc |-> [fails |-> FALSE, associations |-> <<>>]]

\* the module-level medical_retrieve: each string becomes its member, or None
\* where the constructor raises ValueError, and the retrieval of the service
\* runs on the members
module_medical_retrieve(question, department, document_type, disease_category) ==
    medical_retrieve(<<question,
                       filter_member(MedicalDepartmentValues, department),
                       filter_member(DocumentTypeValues, document_type),
                       filter_member(DiseaseCategoryValues, disease_category)>>,
                     EntryAnswers.intent, EntryAnswers.quality, EntryAnswers.kg,
                     EntryAnswers.assoc, {})

\* EnhancedMedicalIndexService.search_medical_documents called with strings
SearchMedicalDocuments(query, k, department, document_type, disease_category, score_threshold) ==
    \E found \in {engine_search(query, k, department, document_type,
                                disease_category, {})} :
        \E r \in {service_results(found, score_threshold)} :
            /\ vector_stores' = r.stores
            /\ sobs' = [NoSobs EXCEPT !.op = "search_medical_documents",
                          !.department = department,
                          !.document_type = document_type,
                          !.disease_category = disease_category, !.k = k,
                          !.score_threshold = score_threshold,
                          !.targets = found.targets, !.results = r.results,
                          !.swallowed = found.swallowed,
                          !.returned = found.returned, !.merged = found.merged]
            /\ UNCHANGED <<metadata_cache, disk, addSum>>
            /\ UNCHANGED <<cacheVars, pipeVars, callVars, backVars>>

\* the module-level medical_retrieve called with strings
ModuleMedicalRetrieve(question, department, document_type, disease_category) ==
    \E r \in {module_medical_retrieve(question, department, document_type,
                                      disease_category)} :
        /\ \A i \in 1..Len(r.cache) : r.cache[i].access_count <= MaxAccess
        /\ cache' = r.cache
        /\ vector_stores' = r.stores
        /\ robs' = [NoRobs EXCEPT !.op = "module_medical_retrieve",
                      !.request = <<question, department, document_type,
                                    disease_category>>,
                      !.ret = r.ret, !.invoked = r.invoked,
                      !.swallowed = r.swallowed, !.query = r.query,
                      !.targets = r.targets]
        /\ UNCHANGED <<now, max_size, obs, lastSet, stale, preAdd>>
        /\ UNCHANGED <<metadata_cache, disk, sobs, addSum>>
        /\ UNCHANGED <<callVars, backVars>>

NextEntry ==
    \/ \E documents \in EntryBatches, p \in EntryPartitions :
          AddDocuments(documents, p, "none")
    \/ \E query \in Queries, k \in EntryLimits, department \in EntryDepartments,
          document_type \in EntryDocumentTypes,
          disease_category \in EntryCategories,
          score_threshold \in EntryThresholds :
          SearchMedicalDocuments(query, k, department, document_type,
                                 disease_category, score_threshold)
    \/ \E department \in EntryDepartments, document_type \in EntryDocumentTypes,
          disease_category \in EntryCategories :
          ModuleMedicalRetrieve("q", department, document_type, disease_category)

\* the string entry points over partitions that adds build up
SpecEntry == InitRetrieve /\ [][NextEntry]_vars

\* the strings that are aliases and not values of a category
Aliases == DOMAIN alias_map \ DiseaseCategoryValues

\* search_medical_documents resolves an alias: a search with an alias as
\* disease_category searches the partitions, and returns the results, of the
\* search with the category of the alias
C19_SearchResolvesAlias ==
    [][(/\ sobs' # sobs
        /\ sobs'.op = "search_medical_documents"
        /\ sobs'.disease_category \in Aliases) =>
           LET found == engine_search(<<"q">>, sobs'.k, sobs'.department,
                                      sobs'.document_type,
                                      alias_map[sobs'.disease_category], {})
           IN  /\ sobs'.targets = found.targets
               /\ sobs'.results =
                      service_results(found, sobs'.score_threshold).results]_vars

\* the module-level medical_retrieve resolves an alias: a retrieval with an
\* alias as disease_category returns what the retrieval with the category of
\* the alias returns
C19_RetrieveResolvesAlias ==
    [][(/\ robs' # robs
        /\ robs'.op = "module_medical_retrieve"
        /\ robs'.request[4] \in Aliases) =>
           robs'.ret = module_medical_retrieve(robs'.request[1], robs'.request[2],
                           robs'.request[3], alias_map[robs'.request[4]]).ret]_vars

\* C19: a disease_category string that is an alias and not a category value
\* is resolved to the category of the alias before the partitions are
\* resolved, at search_medical_documents and at the module-level
\* medical_retrieve: the request searches the same partitions and returns
\* the same results as the request with the canonical value.
C19_AliasResolvedAtEntryPoints ==
    [][/\ (/\ sobs' # sobs
           /\ sobs'.op = "search_medical_documents"
           /\ sobs'.disease_category \in Aliases) =>
              LET found == engine_search(<<"q">>, sobs'.k, sobs'.department,
                                         sobs'.document_type,
                                         alias_map[sobs'.disease_category], {})
              IN  /\ sobs'.targets = found.targets
                  /\ sobs'.results =
                         service_results(found, sobs'.score_threshold).results
       /\ (/\ robs' # robs
           /\ robs'.op = "module_medical_retrieve"
           /\ robs'.request[4] \in Aliases) =>
              robs'.ret = module_medical_retrieve(robs'.request[1],
                              robs'.request[2], robs'.request[3],
                              alias_map[robs'.request[4]]).ret]_vars

\* search_medical_documents with the alias searched the partition of
\* MENTAL_DISORDERS alone, though another partition of A and X has chunks
C19_AliasSearched ==
    /\ sobs.op = "search_medical_documents"
    /\ sobs.disease_category \in Aliases
    /\ sobs.targets = <<<<"A", "X", MENTAL_DISORDERS>>>>
    /\ sobs.results # <<>>
    /\ <<"A", "X", NERVOUS_SYSTEM>> \in DOMAIN vector_stores

(***************************************************************************)
(* Retrievals that fail: two questions are retrieved while intent          *)
(* recognition raises for some calls, and cached results age.              *)
(***************************************************************************)
\* two questions without filters
FrameRequests == {<<"q", None, None, None>>, <<"q2", None, None, None>>}

\* intent recognition raises, or recognises nothing
FrameIntents == {o \in IntentOutcomes : o.department = None}

FrameQualities == {90}

FrameKgs == {o \in KgOutcomes : o.entities # <<>>}

NextFrame ==
    \/ \E d \in Indexings : ProcessAndIndex(d[1], d[2])
    \/ \E request \in FrameRequests :
          RetrieveAny(request, FrameIntents, FrameQualities, FrameKgs,
                      HealthyAssocs, {{}})
    \/ \E d \in RetrieveTickSteps : RetrieveTick(d)

SpecFrame == InitRetrieve /\ [][NextFrame]_vars

\* the entries of the query_result namespace, in the order of the dict
QueryResults(cache_dict) ==
    SelectSeq(cache_dict, LAMBDA e : KeyHasPrefix(e.key, "query_result"))

WrittenResults(cache_before, cache_after) ==
    SelectSeq(QueryResults(cache_after), LAMBDA e :
        \A i \in 1..Len(cache_before) :
            ~(/\ cache_before[i].key = e.key
              /\ cache_before[i].data = e.data
              /\ cache_before[i].timestamp = e.timestamp
              /\ cache_before[i].ttl = e.ttl))

LifePartitions == {<<"A", "X", "Y">>, <<"A", "X", "Z">>}

LifeBatches == {<<>>, <<"c1">>, <<"c2">>}

LifeDepartments == {None, "A"}

LifeDocumentTypes == {"X"}

LifeCategories == {None, "Y"}

LifeLimits == {2}

LifeThresholds == {0}

NextLife ==
    \/ \E documents \in LifeBatches, p \in LifePartitions, fail \in AddFailures :
          AddDocuments(documents, p, fail)
    \/ \E p \in LifePartitions, fail \in BOOLEAN : DeleteStore(p, fail)
    \/ \E query \in Queries, k \in LifeLimits, department \in LifeDepartments,
          document_type \in LifeDocumentTypes,
          disease_category \in LifeCategories,
          score_threshold \in LifeThresholds :
          Search(query, k, department, document_type, disease_category,
                 score_threshold, {})
    \/ Restart

SpecLife == InitStore /\ [][NextLife]_vars

\* get_store_statistics: for every registered partition its document_count
\* and whether its index is resident
get_store_statistics(mc, stores) ==
    [i \in 1..Len(mc) |->
        [store_key |-> mc[i].key, document_count |-> mc[i].document_count,
         is_loaded |-> mc[i].key \in DOMAIN stores]]

\* C23: the construction of a manager registers the partitions on disk and
\* loads no index: every partition reports is_loaded False. An index
\* becomes resident only in an add to its key or a search that targets its
\* key, and stops being resident only in a delete of its key (or with the
\* manager, when a new one is constructed).
C23_LazyLoading ==
    [][/\ sobs'.op = "restart" =>
             /\ MetaKeys(metadata_cache') =
                    {key \in StoreKeys : disk[key].dir /\ disk[key].has_meta}
             /\ \A i \in 1..Len(metadata_cache') :
                   ~get_store_statistics(metadata_cache', vector_stores')[i].is_loaded
       /\ \A key \in StoreKeys :
             (key \notin DOMAIN vector_stores /\ key \in DOMAIN vector_stores') =>
                 \/ sobs'.op = "add" /\ sobs'.key = key
                 \/ /\ sobs'.op = "search"
                    /\ \E i \in 1..Len(sobs'.targets) : sobs'.targets[i] = key
       /\ \A key \in StoreKeys :
             (key \in DOMAIN vector_stores /\ key \notin DOMAIN vector_stores') =>
                 \/ sobs'.op = "delete" /\ sobs'.key = key
                 \/ sobs'.op = "restart"]_vars

\* a manager was constructed over two partitions and none is loaded
C23_Witness ==
    /\ sobs.op = "restart"
    /\ Len(metadata_cache) >= 2
    /\ \A i \in 1..Len(metadata_cache) :
          ~get_store_statistics(metadata_cache, vector_stores)[i].is_loaded

\* a search made the index of a partition resident that the manager had
\* registered from disk
C23_Witness_Loaded ==
    /\ sobs.op = "search"
    /\ \E i \in 1..Len(metadata_cache) :
          /\ get_store_statistics(metadata_cache, vector_stores)[i].is_loaded
          /\ \E j \in 1..Len(metadata_cache) :
                ~get_store_statistics(metadata_cache, vector_stores)[j].is_loaded

\* the partition of the key has no directory, no resident index and no
\* registered metadata
NoStateOf(store_key) ==
    /\ ~disk[store_key].dir
    /\ store_key \notin DOMAIN vector_stores
    /\ store_key \notin MetaKeys(metadata_cache)

\* C24: a delete of a key without state on disk or in memory returns ok and
\* changes nothing; a delete fails only where the removal of an existing
\* directory raises, so a second delete after a successful one returns ok
\* too; and from a successful delete until the next add to the key, the key
\* is not among the registered partitions nor among the targets of a search.
C24_DeleteIdempotent ==
    [][/\ \A key \in StoreKeys :
             (sobs'.op = "delete" /\ sobs'.key = key) =>
                 /\ NoStateOf(key) =>
                       /\ sobs'.ok
                       /\ vector_stores' = vector_stores
                       /\ metadata_cache' = metadata_cache
                       /\ disk' = disk
                 /\ ~sobs'.ok => disk[key].dir
                 /\ sobs'.ok =>
                       /\ ~disk'[key].dir
                       /\ key \notin DOMAIN vector_stores'
                       /\ key \notin MetaKeys(metadata_cache')
                       /\ \A other \in StoreKeys \ {key} :
                             /\ disk'[other] = disk[other]
                             /\ (other \in DOMAIN vector_stores'
                                    <=> other \in DOMAIN vector_stores)
                             /\ (other \in MetaKeys(metadata_cache')
                                    <=> other \in MetaKeys(metadata_cache))
       /\ \A key \in StoreKeys :
             addSum'[key] = NoAdds =>
                 /\ key \notin MetaKeys(metadata_cache')
                 /\ \A i \in 1..Len(get_store_statistics(metadata_cache',
                                                         vector_stores')) :
                       get_store_statistics(metadata_cache',
                                            vector_stores')[i].store_key # key
                 /\ sobs'.op = "search" =>
                       \A i \in 1..Len(sobs'.targets) : sobs'.targets[i] # key]_vars

\* a delete of a key that has no state left returned ok while the sibling
\* partition is registered with its index resident
C24_Witness ==
    /\ sobs.op = "delete" /\ sobs.ok
    /\ addSum[sobs.key] = NoAdds
    /\ NoStateOf(sobs.key)
    /\ \E other \in StoreKeys \ {sobs.key} :
          /\ other \in MetaKeys(metadata_cache)
          /\ other \in DOMAIN vector_stores

\* the targets of the last search, as a set
TargetSet == {sobs.targets[i] : i \in 1..Len(sobs.targets)}

\* the key the last search's three filters name
ExactKey == get_store_key(sobs.department, sobs.document_type, sobs.disease_category)

\* C25: a search with department and document type whose exact partition is
\* registered searches that partition alone, and every chunk it returns is
\* a chunk of it, whatever siblings of the department and type there are.
C25_ExactPartitionOnly ==
    (/\ sobs.op = "search"
     /\ sobs.department # None /\ sobs.document_type # None
     /\ ExactKey \in MetaKeys(metadata_cache)) =>
        /\ sobs.targets = <<ExactKey>>
        /\ \A i \in 1..Len(sobs.results) :
              /\ sobs.results[i].store_key = ExactKey
              /\ \E j \in 1..Len(IndexOfKey(ExactKey)) :
                    IndexOfKey(ExactKey)[j] = sobs.results[i].chunk

\* a search for A, X, Y returned a chunk of A_X_Y while the sibling A_X_Z is
\* registered and holds chunks
C25_Witness ==
    /\ sobs.op = "search"
    /\ sobs.department = "A" /\ sobs.document_type = "X"
    /\ sobs.disease_category = "Y"
    /\ ExactKey \in MetaKeys(metadata_cache)
    /\ <<"A", "X", "Z">> \in MetaKeys(metadata_cache)
    /\ IndexOfKey(<<"A", "X", "Z">>) # <<>>
    /\ sobs.results # <<>>

\* the registered partitions whose metadata equals every filter supplied
MatchingPartitions(department, document_type, disease_category) ==
    {metadata_cache[i].key : i \in
        {j \in 1..Len(metadata_cache) :
            /\ (department # None => metadata_cache[j].department = department)
            /\ (document_type # None
                    => metadata_cache[j].document_type = document_type)
            /\ (disease_category # None
                    => metadata_cache[j].disease_category = disease_category)}}

\* C26: a search with neither department nor document type searches exactly
\* the registered partitions whose metadata equals the disease category
\* supplied, each once, and every registered partition when none is supplied.
C26_FilterPassTargets ==
    (/\ sobs.op = "search"
     /\ sobs.department = None /\ sobs.document_type = None) =>
        /\ TargetSet = MatchingPartitions(None, None, sobs.disease_category)
        /\ Len(sobs.targets) = Cardinality(TargetSet)
        /\ sobs.disease_category = None => TargetSet = MetaKeys(metadata_cache)

\* a search by disease category Y alone searched A_X_Y and left the
\* registered A_X_Z and B_X aside
C26_Witness ==
    /\ sobs.op = "search"
    /\ sobs.department = None /\ sobs.document_type = None
    /\ sobs.disease_category = "Y"
    /\ TargetSet = {<<"A", "X", "Y">>}
    /\ {<<"A", "X", "Z">>, <<"B", "X">>} \subseteq MetaKeys(metadata_cache)

\* a search without any filter searched all three registered partitions
C26_Witness_All ==
    /\ sobs.op = "search"
    /\ sobs.department = None /\ sobs.document_type = None
    /\ sobs.disease_category = None
    /\ Cardinality(TargetSet) = 3

\* the weighted score of a citation of a returned result, from the weights
\* and the enhancements the result's diagnostics report
WeightOf(ret, citation) ==
    calculate_weighted_score(citation, ret.weights, ret.enabled, ret.suggestions,
                             ret.associations)

\* C27: the citations of a retrieval that was not served from the cache are
\* in non-increasing order of weighted score, and the i-th of them carries
\* rank i and citation id med-c<i>.
C27_RankedByWeight ==
    (robs.op = "retrieve" /\ ~robs.fresh /\ "rerank" \in robs.invoked) =>
        /\ \A i \in 1..Len(robs.ret.citations) :
              /\ robs.ret.citations[i].rank = i
              /\ robs.ret.citations[i].citation_id = <<"med-c", i>>
        /\ \A i \in 1..(Len(robs.ret.citations) - 1) :
              WeightOf(robs.ret, robs.ret.citations[i])
                 >= WeightOf(robs.ret, robs.ret.citations[i + 1])

\* a computed retrieval ranked a chunk of the greater weighted score first
\* although the search had returned it after the other
C27_Witness ==
    /\ robs.op = "retrieve" /\ ~robs.fresh /\ "rerank" \in robs.invoked
    /\ Len(robs.ret.citations) >= 2
    /\ WeightOf(robs.ret, robs.ret.citations[1])
          > WeightOf(robs.ret, robs.ret.citations[2])
    /\ robs.ret.citations[1].score > robs.ret.citations[2].score

\* the chunks a search of the partition would find in given stores: those
\* of the resident index, or of the index on disk where none is resident
IndexContents(stores, dk, store_key) ==
    IF store_key \in DOMAIN stores THEN stores[store_key]
    ELSE IF dk[store_key].dir /\ dk[store_key].has_index THEN dk[store_key].index
    ELSE <<>>

\* the document_count registered for each partition
DocumentCounts(mc) ==
    [key \in MetaKeys(mc) |-> MetaOf(mc, key).document_count]

\* C28: an add or a delete that reports failure leaves the registered
\* partitions, the contents of every index and every document_count as they
\* were, and after an add that reports success the document_count of its
\* partition is the number of chunks in its index.
C28_FailureHasNoEffect ==
    [][/\ (sobs'.op \in {"add", "delete"} /\ ~sobs'.ok) =>
             /\ MetaKeys(metadata_cache') = MetaKeys(metadata_cache)
             /\ DocumentCounts(metadata_cache') = DocumentCounts(metadata_cache)
             /\ \A key \in StoreKeys :
                   IndexContents(vector_stores', disk', key)
                      = IndexContents(vector_stores, disk, key)
       /\ (sobs'.op = "add" /\ sobs'.ok) =>
             /\ MetaOf(metadata_cache', sobs'.key).document_count
                   = Len(IndexContents(vector_stores', disk', sobs'.key))
             /\ disk'[sobs'.key].meta.document_count
                   = Len(disk'[sobs'.key].index)]_vars

\* a partition every retrieval of the model resolves to: its requests carry
\* no filter, and intent recognition names department A or nothing
AddedPartition == <<"A", "X", "Y">>

\* C29: after process_and_index_document has added chunks to a partition,
\* no retrieval that resolves to the partition is served a result that was
\* cached before the add: a request whose key was cached then is computed
\* again.
C29_NoResultFromBeforeAdd ==
    [][(/\ robs'.op = "retrieve"
        /\ <<AddedPartition,
             generate_key("query_result", retrieval_cache_key(robs'.request))>>
              \in preAdd) =>
           ~robs'.fresh]_vars

\* the namespaces under which medical_retrieve writes query results, medical
\* associations and KG expansions
PipelineNamespaces == {"query_result", "medical_associations", "kg_expansion"}

\* a get of the key at time t would return a value
PresentIn(cache_dict, key, t) ==
    \E i \in 1..Len(cache_dict) :
        cache_dict[i].key = key /\ ~is_expired(cache_dict[i], t)

\* C30: after a delete_document_index that succeeds and reports the cache
\* cleared, a get of any key the pipeline had written for a query result, for
\* medical associations or for a KG expansion returns nothing.
C30_DeleteClearsPipelineEntries ==
    [][(robs'.op = "delete_index" /\ ~robs'.ret.error) =>
          \A key \in Keys(cache) :
              key[1] \in PipelineNamespaces => ~PresentIn(cache', key, now')]_vars

====
